---- MODULE Spec2Model ----
(***************************************************************************)
(* The Price of Living: the data core (data-loader.js) and the country     *)
(* comparison module (country-comparison.js).                              *)
(*                                                                         *)
(* JavaScript numbers that carry money or rates are exact rationals        *)
(* <<numerator, denominator>> in lowest terms with a positive denominator; *)
(* years are integers.  A text cell of a CSV row is a sequence of          *)
(* one-character strings; names that the code only compares are strings.   *)
(***************************************************************************)
EXTENDS Integers, Sequences, FiniteSets, TLC

VARIABLES
    comparisonSnapshotCache,     \* data-loader.js:322, key -> snapshot | Null
    calls,                       \* loadCountryComparisonSnapshot calls in flight, oldest first
    state,                       \* country-comparison.js:19, {countries, selected, data, normalized}
    comparisonModuleReady,       \* country-comparison.js:26
    pendingComparisonSelection,  \* country-comparison.js:27
    initPc,                      \* position of initCountryComparison
    windowCurrentCountry,        \* window.currentCountry read by determineInitialComparisonCountry
    diffBaseNote,                \* text class of #diff-base-note written by updateDiffSummary
    hist,                        \* history of requests and completions (observation only)
    isChangingCountry,           \* main.js:406
    changeCall,                  \* the accepted changeCountry call and the load it awaits
    shown,                       \* visualization -> what its last load displayed, and for whom
    changeLog,                   \* changeCountry calls made so far (observation only)
    fnArgs,                      \* arguments of the pure function under check
    fnRet                        \* its result

vars == <<comparisonSnapshotCache, calls, state, comparisonModuleReady,
          pendingComparisonSelection, initPc, windowCurrentCountry, diffBaseNote,
          hist, isChangingCountry, changeCall, shown, changeLog, fnArgs, fnRet>>

Null == [null |-> TRUE]   \* null / undefined where an object or a number is expected
NoArray == <<Null>>       \* null / undefined where an array is expected
NoName == ""          \* null, undefined or "" where a name is expected (the code tests names by truthiness)
NoYear == 0 - 1       \* null / undefined where a year is expected
NaN == <<0, 0>>       \* the number NaN

(***************************************************************************)
(* Bounds of the model.                                                    *)
(***************************************************************************)
YearSpan == 2        \* the calculation years are 2011 .. 2011 + YearSpan
MaxSeriesLen == 3    \* longest Total series drawn for the pure functions
MaxTimelineLen == 2  \* longest wage timeline drawn for the alignment functions
MaxSync == 3         \* syncComparisonCountry calls in one run of the page
MaxRows == 2         \* longest inflation file drawn for processInflationData
MaxIncomeLen == 3    \* longest income file drawn for loadIncomeAndInflationData

(***************************************************************************)
(* Program constants.                                                      *)
(***************************************************************************)
DEFAULT_BASE_YEAR == 2012      \* calculateRealWage default, snapshot base year
PREFERRED_SHARED_YEAR == 2020  \* findSharedBaseYear

(***************************************************************************)
(* Exact rational arithmetic standing for JavaScript number arithmetic.    *)
(***************************************************************************)
Abs(n) == IF n < 0 THEN -n ELSE n

RECURSIVE GCD(_, _)
GCD(a, b) == IF b = 0 THEN a ELSE GCD(b, a % b)

Rat(n, d) ==
    LET g == GCD(Abs(n), Abs(d))
        s == IF d < 0 THEN -1 ELSE 1
    IN  <<(s * n) \div g, (s * d) \div g>>

RatInt(n) == <<n, 1>>
\* The common factor of a numerator and a denominator, taken out before multiplying.
Common(n, d) == IF GCD(Abs(n), Abs(d)) = 0 THEN 1 ELSE GCD(Abs(n), Abs(d))
RatMul(a, b) ==
    Rat((a[1] \div Common(a[1], b[2])) * (b[1] \div Common(b[1], a[2])),
        (a[2] \div Common(b[1], a[2])) * (b[2] \div Common(a[1], b[2])))
RatDiv(a, b) == RatMul(a, <<b[2], b[1]>>)
RatAdd(a, b) == Rat(a[1] * b[2] + b[1] * a[2], a[2] * b[2])
RatLess(a, b) == a[1] * b[2] < b[1] * a[2]
RatSub(a, b) == Rat(a[1] * b[2] - b[1] * a[2], a[2] * b[2])

(***************************************************************************)
(* Array helpers.                                                          *)
(***************************************************************************)
\* Array.prototype.find with the predicate "entry.year === y": the first match.
FindByYear(values, y) ==
    LET hits == {i \in 1..Len(values) : values[i].year = y}
    IN  IF hits = {} THEN Null
        ELSE values[CHOOSE i \in hits : \A j \in hits : i <= j]

\* categories.find(c => c.name === name)
FindCategory(categories, name) ==
    LET hits == {i \in 1..Len(categories) : categories[i].name = name}
    IN  IF hits = {} THEN Null
        ELSE categories[CHOOSE i \in hits : \A j \in hits : i <= j]

\* new Set(array) followed by Array.from: first occurrences, in insertion order.
RECURSIVE Dedupe(_)
Dedupe(seq) ==
    IF seq = <<>> THEN <<>>
    ELSE LET init == Dedupe(SubSeq(seq, 1, Len(seq) - 1))
             last == seq[Len(seq)]
         IN  IF \E i \in 1..Len(init) : init[i] = last THEN init ELSE Append(init, last)

Includes(seq, x) == \E i \in 1..Len(seq) : seq[i] = x

\* Insertion of x into an ascending sequence, after the elements that are not greater
\* (Array.prototype.sort is stable).
RECURSIVE InsertNumber(_, _)
InsertNumber(sorted, x) ==
    IF sorted = <<>> THEN <<x>>
    ELSE IF sorted[Len(sorted)] <= x THEN Append(sorted, x)
    ELSE Append(InsertNumber(SubSeq(sorted, 1, Len(sorted) - 1), x), sorted[Len(sorted)])

\* array.sort((a, b) => a - b)
RECURSIVE SortNumbers(_)
SortNumbers(seq) ==
    IF seq = <<>> THEN <<>>
    ELSE InsertNumber(SortNumbers(SubSeq(seq, 1, Len(seq) - 1)), seq[Len(seq)])

RECURSIVE InsertByYear(_, _)
InsertByYear(sorted, x) ==
    IF sorted = <<>> THEN <<x>>
    ELSE IF sorted[Len(sorted)].year <= x.year THEN Append(sorted, x)
    ELSE Append(InsertByYear(SubSeq(sorted, 1, Len(sorted) - 1), x), sorted[Len(sorted)])

\* array.sort((a, b) => a.year - b.year)
RECURSIVE SortByYear(_)
SortByYear(seq) ==
    IF seq = <<>> THEN <<>>
    ELSE InsertByYear(SortByYear(SubSeq(seq, 1, Len(seq) - 1)), seq[Len(seq)])

\* array.map(entry => entry.year)
MapYear(seq) == [i \in 1..Len(seq) |-> seq[i].year]

(***************************************************************************)
(* calculateRealWage, data-loader.js:537-572.                              *)
(***************************************************************************)
\* Variant for contrast: a year without an observation takes the rate of the year before.
RECURSIVE CumulativeInflationCarried(_, _, _, _)
CumulativeInflationCarried(values, y, to, acc) ==
    IF y > to THEN acc
    ELSE LET inflationRate == IF FindByYear(values, y) # Null THEN FindByYear(values, y)
                              ELSE FindByYear(values, y - 1)
         IN  CumulativeInflationCarried(values, y + 1, to,
                 IF inflationRate # Null
                 THEN RatMul(acc, RatAdd(RatInt(1), RatDiv(inflationRate.value, RatInt(100))))
                 ELSE acc)

\* The loop "for (y = from; y <= to; y++) if (found) cumulativeInflation *= 1 + rate/100".
RECURSIVE CumulativeInflation(_, _, _, _)
CumulativeInflation(values, y, to, acc) ==
    IF y > to THEN acc
    ELSE LET inflationRate == FindByYear(values, y)
         IN  CumulativeInflation(values, y + 1, to,
                 IF inflationRate # Null
                 THEN RatMul(acc, RatAdd(RatInt(1), RatDiv(inflationRate.value, RatInt(100))))
                 ELSE acc)

\* Variant for contrast: without a Total category the first category is used.
calculateRealWageAnyCategory(nominalWage, inflationData, year, baseYear) ==
    IF inflationData = Null \/ Len(inflationData.categories) = 0 THEN Null
    ELSE LET totalInflation == inflationData.categories[1]
         IN  IF year > baseYear
             THEN RatDiv(nominalWage,
                      CumulativeInflation(totalInflation.values, baseYear + 1, year, RatInt(1)))
             ELSE IF year < baseYear
             THEN RatMul(nominalWage,
                      CumulativeInflation(totalInflation.values, year + 1, baseYear, RatInt(1)))
             ELSE nominalWage

\* Variant for contrast: the backward branch divides as the forward branch does.
calculateRealWageDeflateOnly(nominalWage, inflationData, year, baseYear) ==
    IF inflationData = Null \/ Len(inflationData.categories) = 0 THEN Null
    ELSE LET totalInflation == FindCategory(inflationData.categories, "Total")
         IN  IF totalInflation = Null THEN Null
             ELSE IF year > baseYear
                  THEN RatDiv(nominalWage,
                           CumulativeInflation(totalInflation.values, baseYear + 1, year, RatInt(1)))
                  ELSE IF year < baseYear
                  THEN RatDiv(nominalWage,
                           CumulativeInflation(totalInflation.values, year + 1, baseYear, RatInt(1)))
                  ELSE nominalWage

\* Variant for contrast: the loop starts at the lower bound year itself.
calculateRealWageInclusive(nominalWage, inflationData, year, baseYear) ==
    IF inflationData = Null \/ Len(inflationData.categories) = 0 THEN Null
    ELSE LET totalInflation == FindCategory(inflationData.categories, "Total")
         IN  IF totalInflation = Null THEN Null
             ELSE IF year >= baseYear
                  THEN RatDiv(nominalWage,
                           CumulativeInflation(totalInflation.values, baseYear, year, RatInt(1)))
                  ELSE RatMul(nominalWage,
                           CumulativeInflation(totalInflation.values, year, baseYear, RatInt(1)))

calculateRealWage(nominalWage, inflationData, year, baseYear) ==
    IF inflationData = Null \/ Len(inflationData.categories) = 0 THEN Null
    ELSE LET totalInflation == FindCategory(inflationData.categories, "Total")
         IN  IF totalInflation = Null THEN Null
             ELSE IF year > baseYear
                  THEN RatDiv(nominalWage,
                           CumulativeInflation(totalInflation.values, baseYear + 1, year, RatInt(1)))
                  ELSE IF year < baseYear
                  THEN RatMul(nominalWage,
                           CumulativeInflation(totalInflation.values, year + 1, baseYear, RatInt(1)))
                  ELSE nominalWage

(***************************************************************************)
(* Text cells and the three conversions the loaders apply to them.         *)
(***************************************************************************)
Undefined == <<"undefined">>     \* a column the row does not have
Falsy(text) == text = <<>> \/ text = Undefined

IsDigit(c) == c \in {"0", "1", "2", "3", "4", "5", "6", "7", "8", "9"}
DigitValue(c) ==
    CASE c = "0" -> 0 [] c = "1" -> 1 [] c = "2" -> 2 [] c = "3" -> 3 [] c = "4" -> 4
      [] c = "5" -> 5 [] c = "6" -> 6 [] c = "7" -> 7 [] c = "8" -> 8 [] c = "9" -> 9

RECURSIVE TrimStart(_)
TrimStart(text) ==
    IF text # <<>> /\ text[1] = " " THEN TrimStart(Tail(text)) ELSE text

RECURSIVE TrimEnd(_)
TrimEnd(text) ==
    IF text # <<>> /\ text[Len(text)] = " " THEN TrimEnd(SubSeq(text, 1, Len(text) - 1)) ELSE text

\* The longest run of digits at the start of text: [value, count, rest].
RECURSIVE ScanDigits(_, _, _)
ScanDigits(text, value, count) ==
    IF text # <<>> /\ IsDigit(text[1])
    THEN ScanDigits(Tail(text), 10 * value + DigitValue(text[1]), count + 1)
    ELSE [value |-> value, count |-> count, rest |-> text]

RECURSIVE Pow10(_)
Pow10(n) == IF n = 0 THEN 1 ELSE 10 * Pow10(n - 1)

\* text without its sign character.
Unsigned(text) == IF text # <<>> /\ text[1] \in {"-", "+"} THEN Tail(text) ELSE text

\* The digits after a "." that follows the whole part, if any.
ScanFraction(whole) ==
    IF whole.rest # <<>> /\ whole.rest[1] = "." THEN ScanDigits(Tail(whole.rest), 0, 0)
    ELSE [value |-> 0, count |-> 0, rest |-> whole.rest]

Magnitude(whole, frac) ==
    Rat(whole.value * Pow10(frac.count) + frac.value, Pow10(frac.count))

Signed(negative, magnitude) ==
    IF negative THEN <<0 - magnitude[1], magnitude[2]>> ELSE magnitude

ScannedDecimal(negative, whole, frac) ==
    [ok |-> whole.count + frac.count > 0,
     value |-> Signed(negative, Magnitude(whole, frac)),
     rest |-> frac.rest]

ScanAfterSign(negative, whole) == ScannedDecimal(negative, whole, ScanFraction(whole))

InfinityText == <<"I", "n", "f", "i", "n", "i", "t", "y">>
Infinity == <<1, 0>>      \* the number Infinity; -Infinity is <<-1, 0>>

StartsWithInfinity(t) == Len(t) >= Len(InfinityText) /\ SubSeq(t, 1, Len(InfinityText)) = InfinityText

ScannedInfinity(negative, t) ==
    [ok |-> TRUE, value |-> Signed(negative, Infinity),
     rest |-> SubSeq(t, Len(InfinityText) + 1, Len(t))]

\* An optional sign, then "Infinity" or digits, an optional "." and digits, at the
\* start of text: [ok, value, rest]; ok needs "Infinity" or one digit at least.
ScanDecimal(text) ==
    IF StartsWithInfinity(Unsigned(text))
    THEN ScannedInfinity(text[1] = "-", Unsigned(text))
    ELSE ScanAfterSign(text # <<>> /\ text[1] = "-", ScanDigits(Unsigned(text), 0, 0))

PrefixValue(scan) == IF scan.ok THEN scan.value ELSE NaN

\* parseFloat(text): the longest numeric prefix after leading blanks, else NaN.
parseFloat(text) ==
    IF text = Undefined THEN NaN ELSE PrefixValue(ScanDecimal(TrimStart(text)))

IntegerValue(negative, whole) ==
    IF whole.count = 0 THEN NaN
    ELSE RatInt(IF negative THEN 0 - whole.value ELSE whole.value)

ScanInteger(t) == IntegerValue(t # <<>> /\ t[1] = "-", ScanDigits(Unsigned(t), 0, 0))

\* parseInt(text): the longest integer prefix after leading blanks, else NaN.
parseInt(text) ==
    IF text = Undefined THEN NaN ELSE ScanInteger(TrimStart(text))

LiteralValue(scan) == IF scan.ok /\ scan.rest = <<>> THEN scan.value ELSE NaN

NumberOfTrimmed(t) == IF t = <<>> THEN RatInt(0) ELSE LiteralValue(ScanDecimal(t))

\* +text (ToNumber): blank text is 0, a numeric literal is its value, anything else NaN.
UnaryPlus(text) ==
    IF text = Undefined THEN NaN ELSE NumberOfTrimmed(TrimEnd(TrimStart(text)))

\* text.replace(',', '.'): the first comma only.
RECURSIVE ReplaceFirstComma(_)
ReplaceFirstComma(text) ==
    IF text = <<>> THEN <<>>
    ELSE IF text[1] = "," THEN <<".">> \o Tail(text)
    ELSE <<text[1]>> \o ReplaceFirstComma(Tail(text))

\* text.split("-")[0]
RECURSIVE BeforeFirstDash(_)
BeforeFirstDash(text) ==
    IF text = <<>> \/ text[1] = "-" THEN <<>>
    ELSE <<text[1]>> \o BeforeFirstDash(Tail(text))

(***************************************************************************)
(* The country name resolver, data-loader.js:220-320, with every entry of  *)
(* the mapping table.                                                      *)
(***************************************************************************)
Mapping(p, e, d) == [pordata |-> p, eurostat |-> e, display |-> d]

MappedNames ==
    {"Albânia", "Albania", "Alemanha", "Germany", "Áustria", "Austria",
     "Bélgica", "Belgium", "Bulgária", "Bulgaria", "Chipre", "Cyprus",
     "Croácia", "Croatia", "República Checa", "Czechia", "Dinamarca",
     "Denmark", "Eslováquia", "Slovakia", "Eslovénia", "Slovenia", "Espanha",
     "Spain", "Estados Unidos", "United States", "Estónia", "Estonia",
     "Finlândia", "Finland", "França", "France", "Grécia", "Greece",
     "Hungria", "Hungary", "Islândia", "Iceland", "Irlanda", "Ireland",
     "Itália", "Italy", "Letónia", "Latvia", "Lituânia", "Lithuania",
     "Luxemburgo", "Luxembourg", "Macedónia do Norte", "North Macedonia",
     "Malta", "Moldávia", "Moldova", "Montenegro", "Noruega", "Norway",
     "Países Baixos", "Netherlands", "Polónia", "Poland", "Portugal",
     "Reino Unido", "United Kingdom", "Roménia", "Romania", "Sérvia",
     "Serbia", "Síria", "Syria", "Suécia", "Sweden", "Suíça", "Switzerland",
     "Turquia", "Turkey", "Türkiye", "Ucrânia", "Ukraine"}

countryMappings(name) ==
    CASE name = "Albânia" -> Mapping("Albânia", "Albania", "Albânia")
      [] name = "Albania" -> Mapping("Albânia", "Albania", "Albânia")
      [] name = "Alemanha" -> Mapping("Alemanha", "Germany", "Alemanha")
      [] name = "Germany" -> Mapping("Alemanha", "Germany", "Alemanha")
      [] name = "Áustria" -> Mapping("Áustria", "Austria", "Áustria")
      [] name = "Austria" -> Mapping("Áustria", "Austria", "Áustria")
      [] name = "Bélgica" -> Mapping("Bélgica", "Belgium", "Bélgica")
      [] name = "Belgium" -> Mapping("Bélgica", "Belgium", "Bélgica")
      [] name = "Bulgária" -> Mapping("Bulgária", "Bulgaria", "Bulgária")
      [] name = "Bulgaria" -> Mapping("Bulgária", "Bulgaria", "Bulgária")
      [] name = "Chipre" -> Mapping("Chipre", "Cyprus", "Chipre")
      [] name = "Cyprus" -> Mapping("Chipre", "Cyprus", "Chipre")
      [] name = "Croácia" -> Mapping("Croácia", "Croatia", "Croácia")
      [] name = "Croatia" -> Mapping("Croácia", "Croatia", "Croácia")
      [] name = "República Checa" -> Mapping("República Checa", "Czechia", "República Checa")
      [] name = "Czechia" -> Mapping("República Checa", "Czechia", "República Checa")
      [] name = "Dinamarca" -> Mapping("Dinamarca", "Denmark", "Dinamarca")
      [] name = "Denmark" -> Mapping("Dinamarca", "Denmark", "Dinamarca")
      [] name = "Eslováquia" -> Mapping("Eslováquia", "Slovakia", "Eslováquia")
      [] name = "Slovakia" -> Mapping("Eslováquia", "Slovakia", "Eslováquia")
      [] name = "Eslovénia" -> Mapping("Eslovénia", "Slovenia", "Eslovénia")
      [] name = "Slovenia" -> Mapping("Eslovénia", "Slovenia", "Eslovénia")
      [] name = "Espanha" -> Mapping("Espanha", "Spain", "Espanha")
      [] name = "Spain" -> Mapping("Espanha", "Spain", "Espanha")
      [] name = "Estados Unidos" -> Mapping("Estados Unidos", "United States", "Estados Unidos")
      [] name = "United States" -> Mapping("Estados Unidos", "United States", "Estados Unidos")
      [] name = "Estónia" -> Mapping("Estónia", "Estonia", "Estónia")
      [] name = "Estonia" -> Mapping("Estónia", "Estonia", "Estónia")
      [] name = "Finlândia" -> Mapping("Finlândia", "Finland", "Finlândia")
      [] name = "Finland" -> Mapping("Finlândia", "Finland", "Finlândia")
      [] name = "França" -> Mapping("França", "France", "França")
      [] name = "France" -> Mapping("França", "France", "França")
      [] name = "Grécia" -> Mapping("Grécia", "Greece", "Grécia")
      [] name = "Greece" -> Mapping("Grécia", "Greece", "Grécia")
      [] name = "Hungria" -> Mapping("Hungria", "Hungary", "Hungria")
      [] name = "Hungary" -> Mapping("Hungria", "Hungary", "Hungria")
      [] name = "Islândia" -> Mapping("Islândia", "Iceland", "Islândia")
      [] name = "Iceland" -> Mapping("Islândia", "Iceland", "Islândia")
      [] name = "Irlanda" -> Mapping("Irlanda", "Ireland", "Irlanda")
      [] name = "Ireland" -> Mapping("Irlanda", "Ireland", "Irlanda")
      [] name = "Itália" -> Mapping("Itália", "Italy", "Itália")
      [] name = "Italy" -> Mapping("Itália", "Italy", "Itália")
      [] name = "Letónia" -> Mapping("Letónia", "Latvia", "Letónia")
      [] name = "Latvia" -> Mapping("Letónia", "Latvia", "Letónia")
      [] name = "Lituânia" -> Mapping("Lituânia", "Lithuania", "Lituânia")
      [] name = "Lithuania" -> Mapping("Lituânia", "Lithuania", "Lituânia")
      [] name = "Luxemburgo" -> Mapping("Luxemburgo", "Luxembourg", "Luxemburgo")
      [] name = "Luxembourg" -> Mapping("Luxemburgo", "Luxembourg", "Luxemburgo")
      [] name = "Macedónia do Norte" -> Mapping("Macedónia do Norte", "North Macedonia", "Macedónia do Norte")
      [] name = "North Macedonia" -> Mapping("Macedónia do Norte", "North Macedonia", "Macedónia do Norte")
      [] name = "Malta" -> Mapping("Malta", "Malta", "Malta")
      [] name = "Moldávia" -> Mapping("Moldávia", "Moldova", "Moldávia")
      [] name = "Moldova" -> Mapping("Moldávia", "Moldova", "Moldávia")
      [] name = "Montenegro" -> Mapping("Montenegro", "Montenegro", "Montenegro")
      [] name = "Noruega" -> Mapping("Noruega", "Norway", "Noruega")
      [] name = "Norway" -> Mapping("Noruega", "Norway", "Noruega")
      [] name = "Países Baixos" -> Mapping("Países Baixos", "Netherlands", "Países Baixos")
      [] name = "Netherlands" -> Mapping("Países Baixos", "Netherlands", "Países Baixos")
      [] name = "Polónia" -> Mapping("Polónia", "Poland", "Polónia")
      [] name = "Poland" -> Mapping("Polónia", "Poland", "Polónia")
      [] name = "Portugal" -> Mapping("Portugal", "Portugal", "Portugal")
      [] name = "Reino Unido" -> Mapping("Reino Unido", "United Kingdom", "Reino Unido")
      [] name = "United Kingdom" -> Mapping("Reino Unido", "United Kingdom", "Reino Unido")
      [] name = "Roménia" -> Mapping("Roménia", "Romania", "Roménia")
      [] name = "Romania" -> Mapping("Roménia", "Romania", "Roménia")
      [] name = "Sérvia" -> Mapping("Sérvia", "Serbia", "Sérvia")
      [] name = "Serbia" -> Mapping("Sérvia", "Serbia", "Sérvia")
      [] name = "Síria" -> Mapping("Síria", "Syria", "Síria")
      [] name = "Syria" -> Mapping("Síria", "Syria", "Síria")
      [] name = "Suécia" -> Mapping("Suécia", "Sweden", "Suécia")
      [] name = "Sweden" -> Mapping("Suécia", "Sweden", "Suécia")
      [] name = "Suíça" -> Mapping("Suíça", "Switzerland", "Suíça")
      [] name = "Switzerland" -> Mapping("Suíça", "Switzerland", "Suíça")
      [] name = "Turquia" -> Mapping("Turquia", "Turkey", "Turquia")
      [] name = "Turkey" -> Mapping("Turquia", "Turkey", "Turquia")
      [] name = "Türkiye" -> Mapping("Turquia", "Türkiye", "Turquia")
      [] name = "Ucrânia" -> Mapping("Ucrânia", "Ukraine", "Ucrânia")
      [] name = "Ukraine" -> Mapping("Ucrânia", "Ukraine", "Ucrânia")

getPordataCountryName(country) ==
    IF country = NoName THEN NoName
    ELSE IF country \in MappedNames THEN countryMappings(country).pordata ELSE country

getEurostatCountryName(country) ==
    IF country = NoName THEN NoName
    ELSE IF country \in MappedNames THEN countryMappings(country).eurostat ELSE country

\* Variant for contrast: a name without a mapping resolves to nothing.
getDisplayCountryNameMappedOnly(country) ==
    IF country \in MappedNames THEN countryMappings(country).display ELSE NoName

getDisplayCountryName(country) ==
    IF country = NoName THEN NoName
    ELSE IF country \in MappedNames THEN countryMappings(country).display ELSE country

(***************************************************************************)
(* Completions of asynchronous functions: a value returned or an error     *)
(* thrown.                                                                 *)
(***************************************************************************)
Return(v) == [kind |-> "return", value |-> v]
Throw(e) == [kind |-> "throw", error |-> e]

\* try { body } catch (error) { return null }
CatchReturnNull(body) == IF body.kind = "throw" THEN Return(Null) ELSE body

\* loadCSVData, data-loader.js:327-336; fetched is the completion of d3.csv.
loadCSVData(fetched) == IF fetched.kind = "throw" THEN Return(NoArray) ELSE fetched

(***************************************************************************)
(* processInflationData, data-loader.js:343-403.  A row is                 *)
(* [ano, pais, regiao, filtro, valor]: "01. Ano", "02. Nome País (Europa)",*)
(* "02. Nome Região (Portugal)", "03. Filtro 1", "08. Valor".              *)
(***************************************************************************)
\* The names of the model in the order of Array.prototype.sort() (UTF-16 code units).
SortedNames ==
    <<"Alemanha", "Alimentação", "Espanha", "França", "Habitação", "Malta", "Portugal", "Total">>

NameRank(name) == CHOOSE i \in 1..Len(SortedNames) : SortedNames[i] = name

RECURSIVE InsertName(_, _)
InsertName(sorted, x) ==
    IF sorted = <<>> THEN <<x>>
    ELSE IF NameRank(sorted[Len(sorted)]) <= NameRank(x) THEN Append(sorted, x)
    ELSE Append(InsertName(SubSeq(sorted, 1, Len(sorted) - 1), x), sorted[Len(sorted)])

\* array.sort() on names
RECURSIVE SortNames(_)
SortNames(seq) ==
    IF seq = <<>> THEN <<>>
    ELSE InsertName(SortNames(SubSeq(seq, 1, Len(seq) - 1)), seq[Len(seq)])

\* d["02. Nome País (Europa)"] || d["02. Nome Região (Portugal)"]
CountryColumn(d) == IF d.pais # NoName THEN d.pais ELSE d.regiao

\* The rows the country filter lets through (lines 350-353 and 378-381).
PassesCountryFilter(d, normalizedCountry) ==
    ~(normalizedCountry # NoName /\ CountryColumn(d) # NoName
        /\ CountryColumn(d) # normalizedCountry)

\* !isNaN(year) && category && !isNaN(value)
ValidInflationRow(d) ==
    /\ UnaryPlus(d.ano) # NaN
    /\ d.filtro # NoName
    /\ parseFloat(d.valor) # NaN

\* The year of a row; the year cells of the model hold no fraction.
RowYear(d) == UnaryPlus(d.ano)[1]

\* The rows that survive the filter of lines 346-360.
KeptRows(data, normalizedCountry) ==
    SelectSeq(data, LAMBDA d : PassesCountryFilter(d, normalizedCountry) /\ ValidInflationRow(d))

MapFiltro(rows) == [i \in 1..Len(rows) |-> rows[i].filtro]
MapRowYear(rows) == [i \in 1..Len(rows) |-> RowYear(rows[i])]

\* { year, value } of each row (lines 383-386)
Readings(rows) ==
    [i \in 1..Len(rows) |-> [year |-> RowYear(rows[i]), value |-> parseFloat(rows[i].valor)]]

\* The values of one category, sorted by year (lines 374-391).
CategoryValues(kept, categoryName) ==
    SortByYear(Readings(SelectSeq(kept, LAMBDA d : d.filtro = categoryName)))

CategoryEntries(kept, sortedCategories) ==
    [i \in 1..Len(sortedCategories) |->
        [name |-> sortedCategories[i], values |-> CategoryValues(kept, sortedCategories[i])]]

ProcessedRows(kept) ==
    [categories |-> CategoryEntries(kept, SortNames(Dedupe(MapFiltro(kept)))),
     years |-> SortNumbers(Dedupe(MapRowYear(kept)))]

\* Variant for contrast: the first pass adds the year of a row before it has looked at
\* the row's category and value.
YearsBeforeValidation(data, normalizedCountry) ==
    SelectSeq(data, LAMBDA d : PassesCountryFilter(d, normalizedCountry) /\ UnaryPlus(d.ano) # NaN)

processInflationDataEarlyYears(data, country) ==
    [categories |-> ProcessedRows(KeptRows(data, getPordataCountryName(country))).categories,
     years |-> SortNumbers(Dedupe(MapRowYear(
                   YearsBeforeValidation(data, getPordataCountryName(country)))))]

processInflationData(data, country) ==
    ProcessedRows(KeptRows(data, getPordataCountryName(country)))

(***************************************************************************)
(* loadInflationByCategories, data-loader.js:409-432.                      *)
(***************************************************************************)
\* Variant for contrast: the dataset is returned also when it has no categories.
ProcessedAlways(processedData) == Return(processedData)

\* Lines 416-426: no categories, return null.
ProcessedOrNull(processedData) ==
    IF Len(processedData.categories) = 0 THEN Return(Null) ELSE Return(processedData)

InflationLoaded(data, country) ==
    IF data.kind = "throw" THEN data
    ELSE IF data.value = NoArray THEN Throw("Failed to load data")
    ELSE ProcessedOrNull(processInflationData(data.value, country))

InflationBody(country, fetched) == InflationLoaded(loadCSVData(fetched), country)

\* Variant for contrast: the catch block lets the error through.
loadInflationByCategoriesRethrow(country, fetched) == InflationBody(country, fetched)

loadInflationByCategories(country, fetched) == CatchReturnNull(InflationBody(country, fetched))

(***************************************************************************)
(* getAvailableCountries, data-loader.js:437-457.                          *)
(***************************************************************************)
MapPais(rows) == [i \in 1..Len(rows) |-> rows[i].pais]

CountriesLoaded(data) ==
    IF data.kind = "throw" \/ data.value = NoArray THEN <<>>
    ELSE SortNames(Dedupe(MapPais(SelectSeq(data.value, LAMBDA d : d.pais # NoName))))

getAvailableCountries(fetched) == CountriesLoaded(loadCSVData(fetched))

(***************************************************************************)
(* loadMinimumWageData, data-loader.js:462-531.  A national row is         *)
(* [indicador, ano, valor] ("03. Indicador", "01. Ano", "09. Valor"), a    *)
(* Eurostat row is [geo, timePeriod, obsValue].  The wage data object is a *)
(* function from its years to its values.                                  *)
(***************************************************************************)
\* indicator.includes("Portugal continental"), over the indicators of the model.
IncludesContinental(indicador) ==
    indicador \in {"Retribuição mínima mensal garantida (RMMG) - Portugal continental"}

Put(object, key, value) ==
    [k \in DOMAIN object \cup {key} |-> IF k = key THEN value ELSE object[k]]

NationalRowAccepted(row) ==
    /\ row.indicador # NoName /\ IncludesContinental(row.indicador)
    /\ parseInt(row.ano) # NaN /\ parseInt(row.ano) # RatInt(0)
    /\ ~Falsy(row.valor)
    /\ row.valor \notin {<<"x">>, <<"-">>, <<"-", ",">>}
    /\ parseFloat(ReplaceFirstComma(row.valor)) # NaN

\* wageData[year] = value for an accepted row (lines 475-492)
NationalRowRead(wageData, row) ==
    IF NationalRowAccepted(row)
    THEN Put(wageData, parseInt(row.ano)[1], parseFloat(ReplaceFirstComma(row.valor)))
    ELSE wageData

RECURSIVE NationalWageData(_)
NationalWageData(rows) ==
    IF rows = <<>> THEN <<>>
    ELSE NationalRowRead(NationalWageData(SubSeq(rows, 1, Len(rows) - 1)), rows[Len(rows)])

EurostatRowAccepted(d, eurostatCountry) ==
    /\ d.geo = eurostatCountry
    /\ ~Falsy(d.timePeriod) /\ ~Falsy(d.obsValue)
    /\ parseInt(BeforeFirstDash(d.timePeriod)) # NaN
    /\ parseFloat(d.obsValue) # NaN

\* if (!wageData[year] || value > wageData[year]) wageData[year] = value
KeepGreatest(wageData, year, value) ==
    IF year \notin DOMAIN wageData \/ wageData[year][1] = 0 \/ RatLess(wageData[year], value)
    THEN Put(wageData, year, value)
    ELSE wageData

EurostatRowRead(wageData, d, eurostatCountry) ==
    IF EurostatRowAccepted(d, eurostatCountry)
    THEN KeepGreatest(wageData, parseInt(BeforeFirstDash(d.timePeriod))[1], parseFloat(d.obsValue))
    ELSE wageData

RECURSIVE EurostatWageData(_, _)
EurostatWageData(rows, eurostatCountry) ==
    IF rows = <<>> THEN <<>>
    ELSE EurostatRowRead(EurostatWageData(SubSeq(rows, 1, Len(rows) - 1), eurostatCountry),
                         rows[Len(rows)], eurostatCountry)

\* The file loadMinimumWageData fetches for a country.
WageResource(country) ==
    IF getPordataCountryName(country) = "Portugal"
    THEN "data/salario-minimo-nacional.csv" ELSE "data/salario_minimo_europa.csv"

WageLoaded(data, country) ==
    IF data.kind = "throw" THEN data
    ELSE IF data.value = NoArray THEN Throw("Failed to load wage data")
    ELSE IF getPordataCountryName(country) = "Portugal"
         THEN Return(NationalWageData(data.value))
         ELSE Return(EurostatWageData(data.value, getEurostatCountryName(country)))

WageBody(country, fetched) == WageLoaded(loadCSVData(fetched), country)

loadMinimumWageData(country, fetched) == CatchReturnNull(WageBody(country, fetched))

(***************************************************************************)
(* loadCountryComparisonSnapshot, data-loader.js:644-714: the part after   *)
(* the cache check, given the completions of the two loads.                *)
(***************************************************************************)
\* Object.keys(wageData).map(year => +year).filter(year => !isNaN(year)).sort((a, b) => a - b)
RECURSIVE AscendingYears(_)
AscendingYears(years) ==
    IF years = {} THEN <<>>
    ELSE LET least == CHOOSE y \in years : \A z \in years : y <= z
         IN  <<least>> \o AscendingYears(years \ {least})

\* Lines 668-675: the last entry of the Total values ordered by year.
LatestReading(orderedValues) ==
    [year |-> orderedValues[Len(orderedValues)].year,
     value |-> orderedValues[Len(orderedValues)].value]

LatestOfCategory(totalCategory) ==
    IF totalCategory = Null \/ Len(totalCategory.values) = 0 THEN Null
    ELSE LatestReading(SortByYear(totalCategory.values))

SnapshotInflation(inflationData) ==
    IF inflationData = Null \/ Len(inflationData.categories) = 0 THEN Null
    ELSE LatestOfCategory(FindCategory(inflationData.categories, "Total"))

\* Variant for contrast: the index relates the nominal value to the base nominal.
WageRecordNominalIndex(latestYear, nominalValue, baseYear, baseNominal, realValue) ==
    [year |-> latestYear, nominal |-> nominalValue, real |-> realValue,
     baseYear |-> baseYear, baseNominal |-> baseNominal,
     index |-> IF realValue # Null /\ baseNominal[1] # 0
               THEN RatMul(RatDiv(nominalValue, baseNominal), RatInt(100))
               ELSE Null]

\* Lines 692-703
WageRecord(latestYear, nominalValue, baseYear, baseNominal, realValue) ==
    [year |-> latestYear, nominal |-> nominalValue, real |-> realValue,
     baseYear |-> baseYear, baseNominal |-> baseNominal,
     index |-> IF realValue # Null /\ baseNominal[1] # 0
               THEN RatMul(RatDiv(realValue, baseNominal), RatInt(100))
               ELSE Null]

\* Lines 685-691
WageAt(inflationData, wageData, latestYear, baseYear) ==
    WageRecord(latestYear, wageData[latestYear], baseYear, wageData[baseYear],
               IF inflationData # Null
               THEN calculateRealWage(wageData[latestYear], inflationData, latestYear, baseYear)
               ELSE Null)

WageOfYears(inflationData, wageData, wageYears) ==
    WageAt(inflationData, wageData, wageYears[Len(wageYears)],
           IF Includes(wageYears, DEFAULT_BASE_YEAR) THEN DEFAULT_BASE_YEAR ELSE wageYears[1])

SnapshotWage(inflationData, wageData) ==
    IF wageData = Null \/ DOMAIN wageData = {} THEN Null
    ELSE WageOfYears(inflationData, wageData, AscendingYears(DOMAIN wageData))

\* The snapshot object; wageTimeline and inflationSeries are properties it does not
\* have, read as undefined by the comparison module.
BuildSnapshot(targetCountry, inflationData, wageData) ==
    [country |-> targetCountry,
     displayName |-> getDisplayCountryName(targetCountry),
     inflation |-> SnapshotInflation(inflationData),
     wage |-> SnapshotWage(inflationData, wageData),
     wageTimeline |-> NoArray,
     inflationSeries |-> NoArray]

\* const targetCountry = country || "Portugal" (line 645)
TargetCountry(country) == IF country = NoName THEN "Portugal" ELSE country

\* Variant for contrast: the wage block sits inside the inflation block.
SnapshotAfterLoadsNested(targetCountry, inflation, wage) ==
    IF inflation.kind = "throw" \/ wage.kind = "throw" THEN Return(Null)
    ELSE Return([BuildSnapshot(targetCountry, inflation.value, wage.value) EXCEPT
                    !.wage = IF inflation.value = Null THEN Null ELSE @])

\* Lines 651-713: await Promise.all([...]), build, store (by the caller), return;
\* catch: return null.
SnapshotAfterLoads(targetCountry, inflation, wage) ==
    IF inflation.kind = "throw" \/ wage.kind = "throw" THEN Return(Null)
    ELSE Return(BuildSnapshot(targetCountry, inflation.value, wage.value))

(***************************************************************************)
(* The three resources, as small files.                                    *)
(***************************************************************************)
RECURSIVE IntText(_)
IntText(n) ==
    LET digit == <<"0", "1", "2", "3", "4", "5", "6", "7", "8", "9">>[(n % 10) + 1]
    IN  IF n < 10 THEN <<digit>> ELSE Append(IntText(n \div 10), digit)

InflationRow(pais, year, filtro, valor) ==
    [ano |-> IntText(year), pais |-> pais, regiao |-> NoName, filtro |-> filtro, valor |-> valor]

\* data/inflacao_portugal_europa.csv
InflationCsv ==
    << InflationRow("Portugal", PREFERRED_SHARED_YEAR + 1, "Total", <<"2", "5">>),
       InflationRow("Portugal", PREFERRED_SHARED_YEAR, "Total", <<"2", ".", "4">>),
       InflationRow("Portugal", PREFERRED_SHARED_YEAR, "Habitação", <<"5">>),
       InflationRow("Espanha", PREFERRED_SHARED_YEAR, "Total", <<"-", "2", "0">>),
       InflationRow("Espanha", PREFERRED_SHARED_YEAR + 1, "Total", <<"x">>),
       InflationRow("França", PREFERRED_SHARED_YEAR, "Habitação", <<"1", ".", "5">>),
       InflationRow("Malta", PREFERRED_SHARED_YEAR, "Total", <<"1">>) >>

Continental == "Retribuição mínima mensal garantida (RMMG) - Portugal continental"

NationalRow(indicador, year, valor) ==
    [indicador |-> indicador, ano |-> IntText(year), valor |-> valor]

\* data/salario-minimo-nacional.csv
NationalWageCsv ==
    << NationalRow(Continental, DEFAULT_BASE_YEAR, <<"4", "8", "5">>),
       NationalRow(Continental, PREFERRED_SHARED_YEAR, <<"6", "3", "5">>),
       NationalRow(Continental, PREFERRED_SHARED_YEAR + 1, <<"6", "6", "5">>),
       NationalRow(Continental, PREFERRED_SHARED_YEAR + 2, <<"x">>),
       NationalRow("RMMG - Madeira", PREFERRED_SHARED_YEAR + 2, <<"7", "2", "3">>) >>

EurostatRow(geo, year, obsValue) ==
    [geo |-> geo, timePeriod |-> IntText(year) \o <<"-", "S", "1">>, obsValue |-> obsValue]

\* data/salario_minimo_europa.csv
EurostatWageCsv ==
    << EurostatRow("Spain", PREFERRED_SHARED_YEAR, <<"1", "0", "5", "0">>),
       EurostatRow("Spain", PREFERRED_SHARED_YEAR, <<"1", "1", "0", "8">>),
       EurostatRow("Spain", PREFERRED_SHARED_YEAR + 1, <<"1", "1", "2", "5">>),
       EurostatRow("France", PREFERRED_SHARED_YEAR - 1, <<"1", "5", "2", "0">>),
       EurostatRow("France", PREFERRED_SHARED_YEAR + 1, <<"1", "5", "5", "5">>) >>

Resource(path) ==
    CASE path = "data/inflacao_portugal_europa.csv" -> InflationCsv
      [] path = "data/salario-minimo-nacional.csv"  -> NationalWageCsv
      [] path = "data/salario_minimo_europa.csv"    -> EurostatWageCsv

\* The completion of d3.csv(path): the rows, or a rejection.
Fetched(path, outcome) ==
    IF outcome = "ok" THEN Return(Resource(path)) ELSE Throw("d3.csv rejected")

(***************************************************************************)
(* The state of the two modules when nothing has been started; the         *)
(* specifications of the pure functions keep it fixed.                     *)
(***************************************************************************)
BASE_COUNTRY == "Portugal"                \* country-comparison.js:9
DEFAULT_SECONDARY_COUNTRY == "Espanha"    \* country-comparison.js:10

(***************************************************************************)
(* main.js:281-305 and 406-446: the page's country, the guard of           *)
(* changeCountry, and the four visualizations.                             *)
(***************************************************************************)
DEFAULT_COUNTRY == "Portugal"             \* main.js:283, 409

\* The display loads in the order changeCountry awaits them (lines 435-438).
DisplayLoads == <<"inflation", "bullet", "choropleth", "scatter">>

Visualizations == {DisplayLoads[i] : i \in 1..Len(DisplayLoads)}

NoChange == [pc |-> 0, target |-> NoName]

\* initializeApp has awaited its four loads, each for the default country.
AllShownFor(country) == [v \in Visualizations |-> [country |-> country, view |-> "data"]]

NoChangeLog == [calls |-> 0, country |-> NoName, force |-> FALSE]

mainVars == <<isChangingCountry, changeCall, shown, changeLog>>

\* Observation only: what has been requested and what has completed so far.
NoCall == [key |-> NoName, loads |-> 0, ret |-> Null, first |-> Null, latest |-> Null]

NoHistory ==
    [first |-> [k \in {} |-> Null],     \* key -> snapshot of the first completed load
     latest |-> [k \in {} |-> Null],    \* key -> snapshot of the latest completed load
     last |-> NoCall,                   \* the latest call for a key with a completed load
     preReady |-> [seen |-> FALSE, country |-> NoName],  \* the last request before readiness
     syncs |-> 0]                       \* syncComparisonCountry calls so far

ModulesConstructed ==
    /\ comparisonSnapshotCache = [k \in {} |-> Null]
    /\ calls = <<>>
    /\ state = [countries |-> <<>>,
                selected |-> [a |-> BASE_COUNTRY, b |-> NoName],
                data |-> [a |-> Null, b |-> Null],
                normalized |-> Null]
    /\ comparisonModuleReady = FALSE
    /\ pendingComparisonSelection = NoName
    /\ initPc = "idle"
    /\ diffBaseNote = "waiting"
    /\ hist = NoHistory
    /\ isChangingCountry = FALSE
    /\ changeCall = NoChange
    /\ shown = AllShownFor(DEFAULT_COUNTRY)
    /\ changeLog = NoChangeLog

ModulesAtRest ==
    /\ ModulesConstructed
    /\ windowCurrentCountry = NoName

ModulesUnchanged ==
    UNCHANGED <<comparisonSnapshotCache, calls, state, comparisonModuleReady,
                pendingComparisonSelection, initPc, windowCurrentCountry, mainVars, diffBaseNote, hist>>

NotApplied == [done |-> FALSE]
Applied(v) == [done |-> TRUE, value |-> v]

(***************************************************************************)
(* SpecCalc: calculateRealWage over bounded inputs.                        *)
(***************************************************************************)
CalcYears == (DEFAULT_BASE_YEAR - 1) .. (DEFAULT_BASE_YEAR - 1 + YearSpan)
CalcRates == {<<12, 5>>, <<0 - 20, 1>>}          \* 2.4 % and -20 %
CalcNominals == {RatInt(500), RatInt(705)}
CalcEntries == [year : CalcYears, value : CalcRates]

\* Series as processInflationData leaves them: ascending by year (a year may repeat).
CalcSeries ==
    {s \in UNION {[1..n -> CalcEntries] : n \in 0..MaxSeriesLen} :
        \A i \in 1..Len(s) - 1 : s[i].year <= s[i + 1].year}

OtherCategory == [name |-> "Habitação", values |-> [y \in 1..1 |-> [year |-> DEFAULT_BASE_YEAR, value |-> <<50, 1>>]]]

CalcDataset(shape, series) ==
    CASE shape = "total"       -> [categories |-> <<[name |-> "Total", values |-> series]>>]
      [] shape = "other_total" -> [categories |-> <<OtherCategory, [name |-> "Total", values |-> series]>>]

CalcInit ==
    /\ ModulesAtRest
    /\ fnArgs \in [nominalWage : CalcNominals, shape : {"total", "other_total"},
                   series : CalcSeries, year : CalcYears, baseYear : CalcYears]
    /\ fnRet = NotApplied

CalcApply ==
    /\ fnRet = NotApplied
    /\ fnRet' = Applied(calculateRealWage(fnArgs.nominalWage,
                            CalcDataset(fnArgs.shape, fnArgs.series), fnArgs.year, fnArgs.baseYear))
    /\ UNCHANGED fnArgs
    /\ ModulesUnchanged

CalcNext == CalcApply

SpecCalc == CalcInit /\ [][CalcNext]_vars

(***************************************************************************)
(* C1.  For year # baseYear the result is nominal / F (year > baseYear) or *)
(* nominal * F (year < baseYear), F being the product of 1 + rate(y)/100   *)
(* over exactly the observed years y of the half-open span                 *)
(* (min(year, baseYear), max(year, baseYear)], each taken once.            *)
(***************************************************************************)
ObservedYears(series, lo, hi) ==
    {y \in (lo + 1)..hi : \E i \in 1..Len(series) : series[i].year = y}

RateOf(series, y) ==
    series[CHOOSE i \in 1..Len(series) :
               /\ series[i].year = y
               /\ \A j \in 1..(i - 1) : series[j].year # y].value

RECURSIVE SpanFactor(_, _)
SpanFactor(series, ys) ==
    IF ys = {} THEN RatInt(1)
    ELSE LET y == CHOOSE z \in ys : TRUE
         IN  RatMul(Rat(100 * RateOf(series, y)[2] + RateOf(series, y)[1],
                        100 * RateOf(series, y)[2]),
                    SpanFactor(series, ys \ {y}))

Min2(a, b) == IF a < b THEN a ELSE b
Max2(a, b) == IF a < b THEN b ELSE a

C1_HalfOpenSpanProduct ==
    (fnRet.done /\ fnArgs.year # fnArgs.baseYear) =>
        LET F == SpanFactor(fnArgs.series,
                     ObservedYears(fnArgs.series, Min2(fnArgs.year, fnArgs.baseYear),
                                   Max2(fnArgs.year, fnArgs.baseYear)))
        IN  /\ fnArgs.year > fnArgs.baseYear =>
                  fnRet.value = RatDiv(fnArgs.nominalWage, F)
            /\ fnArgs.year < fnArgs.baseYear =>
                  fnRet.value = RatMul(fnArgs.nominalWage, F)

\* Witness: the lower bound year and the upper bound year both carry a rate, with a
\* gap-free span of one year: only the upper bound's rate is applied (500 / 1.024).
C1_Witness ==
    /\ fnRet.done
    /\ fnArgs.nominalWage = RatInt(500)
    /\ fnArgs.year = DEFAULT_BASE_YEAR + 1
    /\ fnArgs.baseYear = DEFAULT_BASE_YEAR
    /\ Len(fnArgs.series) = 2
    /\ fnArgs.series[1] = [year |-> DEFAULT_BASE_YEAR, value |-> <<0 - 20, 1>>]
    /\ fnArgs.series[2] = [year |-> DEFAULT_BASE_YEAR + 1, value |-> <<12, 5>>]
    /\ fnRet.value = <<15625, 32>>

(***************************************************************************)
(* C2.  Identity: with year = baseYear the result is exactly the nominal   *)
(* value, whatever the Total series holds.                                 *)
(***************************************************************************)
C2_IdentityAtBaseYear ==
    (fnRet.done /\ fnArgs.year = fnArgs.baseYear) => fnRet.value = fnArgs.nominalWage

\* Witness: year = baseYear while the Total series has a rate for that very year.
C2_Witness ==
    /\ fnRet.done
    /\ fnArgs.year = fnArgs.baseYear
    /\ \E i \in 1..Len(fnArgs.series) : fnArgs.series[i].year = fnArgs.year
    /\ fnRet.value = fnArgs.nominalWage

(***************************************************************************)
(* findSharedBaseYear, country-comparison.js:815-829.  A snapshot carries  *)
(* the fields wageTimeline and inflationSeries as NoArray when it has none.*)
(***************************************************************************)
TimelineYears(snapshot) ==
    IF snapshot = Null \/ snapshot.wageTimeline = NoArray THEN <<>>
    ELSE Dedupe(MapYear(snapshot.wageTimeline))

\* yearsA.filter(year => yearsB.has(year))
SharedYears(yearsA, yearsB) == SelectSeq(yearsA, LAMBDA year : Includes(yearsB, year))

\* Lines 820-828: null, 2020 or the first of the shared years.
FirstShared(sharedYears) ==
    IF Len(sharedYears) = 0 THEN NoYear
    ELSE IF Includes(sharedYears, PREFERRED_SHARED_YEAR) THEN PREFERRED_SHARED_YEAR
    ELSE sharedYears[1]

\* Variant for contrast: the shared years are not sorted before the first one is taken.
findSharedBaseYearUnsorted(snapshotA, snapshotB) ==
    FirstShared(SharedYears(TimelineYears(snapshotA), TimelineYears(snapshotB)))

findSharedBaseYear(snapshotA, snapshotB) ==
    FirstShared(SortNumbers(SharedYears(TimelineYears(snapshotA), TimelineYears(snapshotB))))

(***************************************************************************)
(* computeAlignedMetrics, country-comparison.js:831-864.                   *)
(***************************************************************************)
\* Lines 852-863
AlignedMetrics(realLatest, baseNominal) ==
    IF realLatest = Null THEN Null
    ELSE [wageIndex |-> RatMul(RatDiv(realLatest, baseNominal), RatInt(100)),
          alignedReal |-> realLatest,
          baseNominal |-> baseNominal]

\* Lines 841-850: the Total dataset built from the snapshot's series, the real wage at
\* the base year.
RealLatest(snapshot, baseYear) ==
    calculateRealWage(snapshot.wage.nominal,
                      [categories |-> <<[name |-> "Total", values |-> snapshot.inflationSeries]>>],
                      snapshot.wage.year, baseYear)

\* Variant for contrast: a missing nominal at the base year is replaced by a fixed one instead of
\* failing the alignment.
MetricsAtBaseLenient(snapshot, baseYear, baseEntry) ==
    IF snapshot.wage.nominal = Null \/ snapshot.wage.year = NoYear THEN Null
    ELSE AlignedMetrics(RealLatest(snapshot, baseYear),
                        IF baseEntry = Null \/ baseEntry.nominal = Null THEN RatInt(500)
                        ELSE baseEntry.nominal)

\* Lines 836-863
MetricsAtBase(snapshot, baseYear, baseEntry) ==
    IF baseEntry = Null \/ baseEntry.nominal = Null THEN Null
    ELSE IF snapshot.wage.nominal = Null \/ snapshot.wage.year = NoYear THEN Null
    ELSE AlignedMetrics(RealLatest(snapshot, baseYear), baseEntry.nominal)

computeAlignedMetricsLenient(snapshot, baseYear) ==
    IF snapshot = Null \/ snapshot.wage = Null
       \/ snapshot.wageTimeline = NoArray \/ Len(snapshot.wageTimeline) = 0
       \/ snapshot.inflationSeries = NoArray \/ Len(snapshot.inflationSeries) = 0
    THEN Null
    ELSE MetricsAtBaseLenient(snapshot, baseYear, FindByYear(snapshot.wageTimeline, baseYear))

computeAlignedMetrics(snapshot, baseYear) ==
    IF snapshot = Null \/ snapshot.wage = Null
       \/ snapshot.wageTimeline = NoArray \/ Len(snapshot.wageTimeline) = 0
       \/ snapshot.inflationSeries = NoArray \/ Len(snapshot.inflationSeries) = 0
    THEN Null
    ELSE MetricsAtBase(snapshot, baseYear, FindByYear(snapshot.wageTimeline, baseYear))

(***************************************************************************)
(* recomputeAlignment, country-comparison.js:785-813: the new value of     *)
(* state.normalized for the two snapshots in state.data.                   *)
(***************************************************************************)
\* Lines 801-812
AlignedPair(sharedBaseYear, alignedA, alignedB) ==
    IF alignedA = Null \/ alignedB = Null THEN Null
    ELSE [baseYear |-> sharedBaseYear, a |-> alignedA, b |-> alignedB]

\* Lines 794-812
AlignAt(snapshotA, snapshotB, sharedBaseYear) ==
    IF sharedBaseYear = NoYear \/ sharedBaseYear = 0 THEN Null
    ELSE AlignedPair(sharedBaseYear,
                     computeAlignedMetrics(snapshotA, sharedBaseYear),
                     computeAlignedMetrics(snapshotB, sharedBaseYear))

recomputeAlignment(data) ==
    IF data.a = Null \/ data.a.wage = Null \/ data.b = Null \/ data.b.wage = Null THEN Null
    ELSE AlignAt(data.a, data.b, findSharedBaseYear(data.a, data.b))

\* getRealWageValue, country-comparison.js:924-930.
getRealWageValue(st, side) ==
    IF st.normalized # Null /\ st.normalized[side].alignedReal # Null
    THEN st.normalized[side].alignedReal
    ELSE IF st.data[side] # Null /\ st.data[side].wage # Null
         THEN st.data[side].wage.real
         ELSE Null

\* updateDiffSummary, country-comparison.js:354-363: which of its two texts the base
\* note gets.
updateDiffSummary(st) ==
    IF st.normalized # Null /\ st.normalized.baseYear # NoYear /\ st.normalized.baseYear # 0
    THEN "aligned" ELSE "no_common_year"

\* refreshSide, country-comparison.js:262-275: the continuation after the snapshot
\* has arrived.
RefreshWithSnapshot(st, side, snapshot) ==
    [st EXCEPT !.data[side] = snapshot,
               !.normalized = recomputeAlignment([st.data EXCEPT ![side] = snapshot])]

\* refreshSide, country-comparison.js:254-260: no country.
RefreshWithoutCountry(st, side) == [st EXCEPT !.data[side] = Null]

(***************************************************************************)
(* SpecShared: findSharedBaseYear over bounded wage timelines, in any      *)
(* order of entries and with repeated years.                               *)
(***************************************************************************)
AlignYears == (PREFERRED_SHARED_YEAR - YearSpan) .. (PREFERRED_SHARED_YEAR + 1)

SharedTimelines ==
    UNION {[1..n -> [year : AlignYears, nominal : {RatInt(500)}]] : n \in 0..MaxTimelineLen}

TimelineOnly(timeline) == [wageTimeline |-> timeline]

SharedInit ==
    /\ ModulesAtRest
    /\ fnArgs \in [a : SharedTimelines, b : SharedTimelines]
    /\ fnRet = NotApplied

SharedApply ==
    /\ fnRet = NotApplied
    /\ fnRet' = Applied(findSharedBaseYear(TimelineOnly(fnArgs.a), TimelineOnly(fnArgs.b)))
    /\ UNCHANGED fnArgs
    /\ ModulesUnchanged

SharedNext == SharedApply

SpecShared == SharedInit /\ [][SharedNext]_vars

(***************************************************************************)
(* C3.  The shared base year is null for an empty intersection of the two  *)
(* sets of years, 2020 when 2020 is shared, the smallest shared year       *)
(* otherwise: a function of the two sets of years only, symmetric in them. *)
(***************************************************************************)
YearSet(timeline) == {timeline[i].year : i \in 1..Len(timeline)}

C3_SharedBaseYear ==
    fnRet.done =>
        LET shared == YearSet(fnArgs.a) \cap YearSet(fnArgs.b)
        IN  /\ shared = {} => fnRet.value = NoYear
            /\ PREFERRED_SHARED_YEAR \in shared => fnRet.value = PREFERRED_SHARED_YEAR
            /\ (shared # {} /\ PREFERRED_SHARED_YEAR \notin shared) =>
                   /\ fnRet.value \in shared
                   /\ \A y \in shared : fnRet.value <= y

\* Witness: the timelines list their years in different orders and share 2019 and
\* 2021 but not 2020; the smaller one is chosen.
C3_Witness ==
    /\ fnRet.done
    /\ MapYear(fnArgs.a) = <<PREFERRED_SHARED_YEAR + 1, PREFERRED_SHARED_YEAR - 1>>
    /\ MapYear(fnArgs.b) = <<PREFERRED_SHARED_YEAR - 1, PREFERRED_SHARED_YEAR + 1>>
    /\ fnRet.value = PREFERRED_SHARED_YEAR - 1

(***************************************************************************)
(* SpecSnapshot: one loadCountryComparisonSnapshot call on an empty cache, *)
(* over every combination of upstream outcomes.                            *)
(***************************************************************************)
SnapshotCountries == {NoName, "Portugal", "Espanha", "Spain", "França", "Alemanha", "Malta"}

\* An inflation file without a single valid "Total" row.
InflationCsvNoTotal ==
    SelectSeq(InflationCsv, LAMBDA d : d.filtro # "Total")

InflationFetches ==
    {Throw("d3.csv rejected"), Return(InflationCsv), Return(InflationCsvNoTotal), Return(<<>>)}

WageFetches(country) ==
    {Throw("d3.csv rejected"), Return(Resource(WageResource(country))), Return(<<>>)}

SnapshotInit ==
    /\ ModulesAtRest
    /\ \E country \in SnapshotCountries :
         \E inflation \in InflationFetches, wage \in WageFetches(TargetCountry(country)) :
            fnArgs = [country |-> country, inflationFetched |-> inflation, wageFetched |-> wage]
    /\ fnRet = NotApplied

\* The completions of the two loads and of the call.
SnapshotOutcome(targetCountry, inflation, wage) ==
    [inflation |-> inflation, wage |-> wage,
     snapshot |-> SnapshotAfterLoads(targetCountry, inflation, wage)]

SnapshotApply ==
    /\ fnRet = NotApplied
    /\ fnRet' = Applied(SnapshotOutcome(TargetCountry(fnArgs.country),
                            loadInflationByCategories(TargetCountry(fnArgs.country),
                                                      fnArgs.inflationFetched),
                            loadMinimumWageData(TargetCountry(fnArgs.country),
                                                fnArgs.wageFetched)))
    /\ UNCHANGED fnArgs
    /\ ModulesUnchanged

SnapshotNext == SnapshotApply

SpecSnapshot == SnapshotInit /\ [][SnapshotNext]_vars

(***************************************************************************)
(* C9.  Whatever the two loads yield, the call returns a snapshot object   *)
(* (no error, no null); its inflation is null exactly when no Total        *)
(* reading is available and its wage is null exactly when the wage series  *)
(* has no year, each independently of the other load.                      *)
(***************************************************************************)
TotalReadingAvailable(inflation) ==
    /\ inflation.kind = "return" /\ inflation.value # Null
    /\ \E i \in 1..Len(inflation.value.categories) :
          /\ inflation.value.categories[i].name = "Total"
          /\ Len(inflation.value.categories[i].values) > 0

WageYearAvailable(wage) ==
    wage.kind = "return" /\ wage.value # Null /\ DOMAIN wage.value # {}

C9_SnapshotAlwaysReturned ==
    fnRet.done =>
        /\ fnRet.value.snapshot.kind = "return"
        /\ fnRet.value.snapshot.value # Null
        /\ (fnRet.value.snapshot.value.inflation = Null) <=> ~TotalReadingAvailable(fnRet.value.inflation)
        /\ (fnRet.value.snapshot.value.wage = Null) <=> ~WageYearAvailable(fnRet.value.wage)

\* Witness: the inflation load failed and the wage load succeeded; the snapshot has a
\* wage and no inflation.
C9_Witness ==
    /\ fnRet.done
    /\ fnArgs.inflationFetched.kind = "throw"
    /\ fnArgs.wageFetched.kind = "return"
    /\ fnRet.value.snapshot.kind = "return"
    /\ fnRet.value.snapshot.value # Null
    /\ fnRet.value.snapshot.value.inflation = Null
    /\ fnRet.value.snapshot.value.wage # Null

(***************************************************************************)
(* C10.  A failure of the row source propagates as an error to the caller  *)
(* of loadInflationByCategories and of loadMinimumWageData.                *)
(***************************************************************************)
C10_FailurePropagates ==
    fnRet.done =>
        /\ fnArgs.inflationFetched.kind = "throw" => fnRet.value.inflation.kind = "throw"
        /\ fnArgs.wageFetched.kind = "throw" => fnRet.value.wage.kind = "throw"

\* C10 as the code has it: a failure of the row source is caught; both loading
\* functions return null to their caller, and no error reaches it.
C10_FailureReturnsNull ==
    fnRet.done =>
        /\ fnArgs.inflationFetched.kind = "throw" => fnRet.value.inflation = Return(Null)
        /\ fnArgs.wageFetched.kind = "throw" => fnRet.value.wage = Return(Null)

\* Witness: both fetches were rejected and both loading functions returned null.
C10_Witness ==
    /\ fnRet.done
    /\ fnArgs.inflationFetched.kind = "throw"
    /\ fnArgs.wageFetched.kind = "throw"
    /\ fnRet.value.inflation = Return(Null)
    /\ fnRet.value.wage = Return(Null)

(***************************************************************************)
(* SpecAlign: refreshSide and recomputeAlignment over the snapshots the    *)
(* comparison module can read: with or without a wage, a wageTimeline and  *)
(* an inflationSeries.  Side a is loaded once, side b is replaced freely.  *)
(***************************************************************************)
AlignTimelineYears == (PREFERRED_SHARED_YEAR - 1) .. (PREFERRED_SHARED_YEAR + 1)

AlignTimelineShapes ==
    {t \in UNION {[1..n -> [year : AlignTimelineYears, known : BOOLEAN]] :
                     n \in 0..MaxTimelineLen} :
        \A i \in 1..Len(t) - 1 : t[i].year < t[i + 1].year}

RECURSIVE AlignTimeline(_)
AlignTimeline(shape) ==
    IF Len(shape) = 0 THEN <<>>
    ELSE <<[year |-> Head(shape).year,
            nominal |-> IF Head(shape).known THEN RatInt(500) ELSE Null]>>
         \o AlignTimeline(Tail(shape))

AlignInflationSeries ==
    <<[year |-> PREFERRED_SHARED_YEAR, value |-> <<12, 5>>],
      [year |-> PREFERRED_SHARED_YEAR + 1, value |-> <<25, 1>>]>>

AlignWage(year, nominal) ==
    [year |-> year, nominal |-> nominal, real |-> RatInt(600), baseYear |-> DEFAULT_BASE_YEAR,
     baseNominal |-> RatInt(485), index |-> Rat(60000, 485)]

AlignShapes ==
    {[kind |-> "noWage", timeline |-> <<>>]}
    \cup [kind : {"full", "noSeries", "noNominal", "noYear"}, timeline : AlignTimelineShapes]

AlignSnapshot(shape) ==
    [country |-> "Espanha", displayName |-> "Espanha", inflation |-> Null,
     wage |-> CASE shape.kind = "noWage" -> Null
                [] shape.kind = "noNominal" -> AlignWage(PREFERRED_SHARED_YEAR + 1, Null)
                [] shape.kind = "noYear" -> AlignWage(NoYear, RatInt(665))
                [] OTHER -> AlignWage(PREFERRED_SHARED_YEAR + 1, RatInt(665)),
     wageTimeline |-> IF shape.kind = "noWage" THEN NoArray ELSE AlignTimeline(shape.timeline),
     inflationSeries |-> IF shape.kind \in {"noWage", "noSeries"} THEN NoArray
                         ELSE AlignInflationSeries]

AlignInit ==
    /\ ModulesAtRest
    /\ fnArgs = Null
    /\ fnRet = NotApplied

AlignRefresh ==
    \E side \in {"a", "b"}, shape \in AlignShapes :
        /\ side = "a" => state.data.a = Null
        /\ state' = RefreshWithSnapshot(state, side, AlignSnapshot(shape))
        /\ diffBaseNote' = updateDiffSummary(state')
        /\ UNCHANGED <<comparisonSnapshotCache, calls, comparisonModuleReady,
                       pendingComparisonSelection, initPc, windowCurrentCountry, mainVars, hist,
                       fnArgs, fnRet>>

AlignClear ==
    /\ state.data.b # Null
    /\ state' = RefreshWithoutCountry(state, "b")
    /\ diffBaseNote' = updateDiffSummary(state')
    /\ UNCHANGED <<comparisonSnapshotCache, calls, comparisonModuleReady,
                   pendingComparisonSelection, initPc, windowCurrentCountry, mainVars, hist,
                   fnArgs, fnRet>>

AlignNext == AlignRefresh \/ AlignClear

SpecAlign == AlignInit /\ [][AlignNext]_vars

(***************************************************************************)
(* C8.  When, for the chosen shared base year, either snapshot lacks a     *)
(* nominal wage at that year or lacks its own latest wage reading, the     *)
(* alignment fails for the pair: state.normalized is null, each side       *)
(* reports its own-base real wage and the base note reports no common base *)
(* year.  Never is one side aligned and the other on its own base.         *)
(***************************************************************************)
LacksReading(snapshot, year) ==
    \/ \A i \in 1..Len(snapshot.wageTimeline) :
          snapshot.wageTimeline[i].year = year => snapshot.wageTimeline[i].nominal = Null
    \/ snapshot.wage.year = NoYear
    \/ snapshot.wage.nominal = Null

SharedYearChosen ==
    /\ state.data.a # Null /\ state.data.a.wage # Null /\ state.data.a.wageTimeline # NoArray
    /\ state.data.b # Null /\ state.data.b.wage # Null /\ state.data.b.wageTimeline # NoArray
    /\ YearSet(state.data.a.wageTimeline) \cap YearSet(state.data.b.wageTimeline) # {}

ChosenYear ==
    LET shared == YearSet(state.data.a.wageTimeline) \cap YearSet(state.data.b.wageTimeline)
    IN  IF PREFERRED_SHARED_YEAR \in shared THEN PREFERRED_SHARED_YEAR
        ELSE CHOOSE y \in shared : \A z \in shared : y <= z

ReportsAligned(side) ==
    state.normalized # Null /\ getRealWageValue(state, side) = state.normalized[side].alignedReal

C8_AlignmentFailsForThePair ==
    /\ (SharedYearChosen /\ (LacksReading(state.data.a, ChosenYear)
                              \/ LacksReading(state.data.b, ChosenYear))) =>
          /\ state.normalized = Null
          /\ getRealWageValue(state, "a") = state.data.a.wage.real
          /\ getRealWageValue(state, "b") = state.data.b.wage.real
          /\ diffBaseNote = "no_common_year"
    /\ ReportsAligned("a") <=> ReportsAligned("b")

\* Witness: both timelines hold 2020, side a is complete, side b's entry for 2020 has
\* no nominal; nothing is aligned.
C8_Witness ==
    /\ SharedYearChosen
    /\ ChosenYear = PREFERRED_SHARED_YEAR
    /\ ~LacksReading(state.data.a, ChosenYear)
    /\ state.data.a.inflationSeries # NoArray
    /\ state.data.b.inflationSeries # NoArray
    /\ state.data.b.wage.nominal # Null /\ state.data.b.wage.year # NoYear
    /\ LacksReading(state.data.b, ChosenYear)
    /\ state.normalized = Null
    /\ diffBaseNote = "no_common_year"

(***************************************************************************)
(* The comparison module as a state machine.  A step is one task of the    *)
(* event loop together with the promise continuations it makes runnable:   *)
(* a call from the page, or the arrival of the last CSV of a load.         *)
(***************************************************************************)
\* String.prototype.trim and toLowerCase over the names of the model.
TrimName(name) ==
    CASE name = " frança " -> "frança"
      [] name = " " -> ""
      [] OTHER -> name

LowerName(name) ==
    CASE name = "Portugal" -> "portugal"
      [] name = "Espanha" -> "espanha"
      [] name = "França" -> "frança"
      [] name = "Malta" -> "malta"
      [] OTHER -> name

\* country-comparison.js:208-215
normalizeToKnownCountry(countryName, list) ==
    IF countryName = NoName \/ TrimName(countryName) = "" THEN NoName
    ELSE LET trimmed == TrimName(countryName)
             matches == SelectSeq(list, LAMBDA entry : LowerName(entry) = LowerName(trimmed))
         IN  IF Len(matches) > 0 /\ matches[1] # "" THEN matches[1] ELSE trimmed

\* country-comparison.js:194-206
determineInitialComparisonCountry(countries, globalSelection) ==
    IF globalSelection # NoName /\ globalSelection # BASE_COUNTRY
    THEN normalizeToKnownCountry(globalSelection, countries)
    ELSE IF Includes(countries, DEFAULT_SECONDARY_COUNTRY)
            /\ DEFAULT_SECONDARY_COUNTRY # BASE_COUNTRY
         THEN DEFAULT_SECONDARY_COUNTRY
         ELSE LET others == SelectSeq(countries, LAMBDA country : country # BASE_COUNTRY)
              IN  IF Len(others) > 0 THEN others[1] ELSE NoName

\* Variant for contrast: the snapshot is returned without being stored.
StoreSnapshotNowhere(cache, targetCountry, snapshot) == cache

\* data-loader.js:707
StoreSnapshot(cache, targetCountry, snapshot) == Put(cache, targetCountry, snapshot)

\* data-loader.js:647: a stored snapshot is an object, hence truthy.
Cached(cache, targetCountry) == targetCountry \in DOMAIN cache

\* What the latest call observed, kept for a key that has a completed load.
Observe(h, key, loads, ret) ==
    IF key \in DOMAIN h.first
    THEN [h EXCEPT !.last = [key |-> key, loads |-> loads, ret |-> ret,
                             first |-> h.first[key], latest |-> h.latest[key]]]
    ELSE h

\* refreshSide up to its await (country-comparison.js:250-262) and, when the cache
\* answers, through its end: the new state, the load it left in flight, whether the
\* summary was redrawn.
refreshSide(st, cache, h, side, country, origin) ==
    IF country = NoName
    THEN [state |-> RefreshWithoutCountry(st, side), started |-> <<>>, drawn |-> TRUE, hist |-> h]
    ELSE LET targetCountry == TargetCountry(country)
         IN  IF Cached(cache, targetCountry)
             THEN [state |-> RefreshWithSnapshot(st, side, cache[targetCountry]),
                   started |-> <<>>, drawn |-> TRUE,
                   hist |-> Observe(h, targetCountry, 0, cache[targetCountry])]
             ELSE [state |-> st,
                   started |-> <<[key |-> targetCountry, side |-> side, origin |-> origin]>>,
                   drawn |-> FALSE,
                   hist |-> Observe(h, targetCountry, 2, Null)]

\* Lines 244-247
SelectAndRefresh(st, cache, h, normalized, origin) ==
    refreshSide([st EXCEPT !.selected.b = normalized], cache, h, "b", normalized, origin)

\* country-comparison.js:236-248
ApplyNormalized(st, cache, h, normalized, origin) ==
    IF st.selected.b = normalized
    THEN [state |-> st, started |-> <<>>, drawn |-> FALSE, hist |-> h]
    ELSE SelectAndRefresh(st, cache, h, normalized, origin)

applyComparisonSelection(st, cache, h, country, origin) ==
    ApplyNormalized(st, cache, h, normalizeToKnownCountry(country, st.countries), origin)

WindowCountries == {NoName, "portugal"}
SyncTargets == {NoName, "Espanha", " frança ", "Portugal"}
Outcomes == {"ok", "failed"}

\* What loadCountryComparisonSnapshot returns on a cache miss, by the key and the
\* outcomes of its two d3.csv requests (data-loader.js:651-713).
LoadedSnapshot ==
    [targetCountry \in {"Portugal", "Espanha", "França"} |->
        [inflationOutcome \in Outcomes |->
            [wageOutcome \in Outcomes |->
                SnapshotAfterLoads(
                    targetCountry,
                    loadInflationByCategories(targetCountry,
                        Fetched("data/inflacao_portugal_europa.csv", inflationOutcome)),
                    loadMinimumWageData(targetCountry,
                        Fetched(WageResource(targetCountry), wageOutcome)))]]]

\* What getAvailableCountries returns, by the outcome of its d3.csv request.
LoadedCountries ==
    [outcome \in Outcomes |->
        getAvailableCountries(Fetched("data/inflacao_portugal_europa.csv", outcome))]

Init ==
    /\ ModulesConstructed
    /\ windowCurrentCountry \in WindowCountries
    /\ fnArgs = Null
    /\ fnRet = NotApplied

\* initCountryComparison, lines 29-37: no container, return; else draw the layout and
\* await the list of countries.
InitCountryComparison ==
    /\ initPc = "idle"
    /\ \E containerEmpty \in BOOLEAN :
          initPc' = IF containerEmpty THEN "returned" ELSE "countries"
    /\ UNCHANGED <<comparisonSnapshotCache, calls, state, comparisonModuleReady,
                   pendingComparisonSelection, windowCurrentCountry, mainVars, diffBaseNote, hist,
                   fnArgs, fnRet>>

\* Lines 49-51
WithBaseCountry(loaded) ==
    IF Includes(loaded, BASE_COUNTRY) THEN loaded ELSE <<BASE_COUNTRY>> \o loaded

\* Lines 53-55
InitialSelection(st, countries, secondary) ==
    [st EXCEPT !.countries = countries, !.selected = [a |-> BASE_COUNTRY, b |-> secondary]]

\* Lines 58-61: both refreshSide calls have run to their await.
BothRefreshing(ra, rb) ==
    /\ initPc' = "refreshing"
    /\ state' = rb.state
    /\ calls' = calls \o ra.started \o rb.started
    /\ diffBaseNote' = IF ra.drawn \/ rb.drawn THEN updateDiffSummary(rb.state)
                       ELSE diffBaseNote
    /\ hist' = rb.hist

RefreshSecond(ra, secondary) ==
    BothRefreshing(ra, refreshSide(ra.state, comparisonSnapshotCache, ra.hist, "b",
                                   secondary, "init"))

RefreshBoth(countries, secondary) ==
    RefreshSecond(refreshSide(InitialSelection(state, countries, secondary),
                              comparisonSnapshotCache, hist, "a", BASE_COUNTRY, "init"),
                  secondary)

\* Lines 37-61
CountriesArrived(loaded) ==
    IF Len(loaded) = 0
    THEN /\ initPc' = "empty"
         /\ UNCHANGED <<state, calls, diffBaseNote, hist>>
    ELSE RefreshBoth(WithBaseCountry(loaded),
                     determineInitialComparisonCountry(WithBaseCountry(loaded),
                                                       windowCurrentCountry))

\* initCountryComparison, lines 37-61: the list has arrived; both sides are refreshed.
InitCountriesLoaded ==
    /\ initPc = "countries"
    /\ \E outcome \in Outcomes : CountriesArrived(LoadedCountries[outcome])
    /\ UNCHANGED <<comparisonSnapshotCache, comparisonModuleReady, pendingComparisonSelection,
                   windowCurrentCountry, mainVars, fnArgs, fnRet>>

RemoveAt(seq, i) == SubSeq(seq, 1, i - 1) \o SubSeq(seq, i + 1, Len(seq))

\* Variant for contrast: storing a snapshot evicts every other entry.
CacheAfterLoadEvicting(cache, call, snapshot) ==
    IF snapshot = Null THEN cache
    ELSE StoreSnapshot([k \in {} |-> Null], call.key, snapshot)

\* data-loader.js:707-713: the snapshot is stored unless the call ended in its catch
\* block.
CacheAfterLoad(cache, call, snapshot) ==
    IF snapshot = Null THEN cache ELSE StoreSnapshot(cache, call.key, snapshot)

\* The first and the latest snapshot a completed load has returned for each key.
Completed(h, call, snapshot) ==
    IF snapshot = Null THEN h
    ELSE [h EXCEPT !.latest = Put(@, call.key, snapshot),
                   !.first = IF call.key \in DOMAIN @ THEN @ ELSE Put(@, call.key, snapshot)]

\* await Promise.all([...]) of line 58 is over when no refresh of the initialisation
\* is in flight any more.
InitResumes(call, rest) ==
    call.origin = "init" /\ \A j \in DOMAIN rest : rest[j].origin # "init"

\* initCountryComparison, lines 63-66
AfterRefresh(st, cache, h, resumes, pending) ==
    IF resumes /\ pending # NoName
    THEN applyComparisonSelection(st, cache, h, pending, "apply")
    ELSE [state |-> st, started |-> <<>>, drawn |-> FALSE, hist |-> h]

SnapshotResumed(call, rest, cache, resumes, applied) ==
    /\ comparisonSnapshotCache' = cache
    /\ state' = applied.state
    /\ calls' = rest \o applied.started
    /\ diffBaseNote' = updateDiffSummary(applied.state)
    /\ hist' = applied.hist
    /\ comparisonModuleReady' = (comparisonModuleReady \/ resumes)
    /\ pendingComparisonSelection' = IF resumes THEN NoName ELSE pendingComparisonSelection
    /\ initPc' = IF resumes THEN (IF Len(applied.started) > 0 THEN "applying" ELSE "done")
                 ELSE IF call.origin = "apply" THEN "done" ELSE initPc

SnapshotArrived(call, rest, snapshot) ==
    SnapshotResumed(call, rest,
                    CacheAfterLoad(comparisonSnapshotCache, call, snapshot),
                    InitResumes(call, rest),
                    AfterRefresh(RefreshWithSnapshot(state, call.side, snapshot),
                                 CacheAfterLoad(comparisonSnapshotCache, call, snapshot),
                                 Completed(hist, call, snapshot),
                                 InitResumes(call, rest),
                                 pendingComparisonSelection))

\* The second CSV of a load arrives: loadCountryComparisonSnapshot builds, stores and
\* returns (data-loader.js:651-713), refreshSide resumes (country-comparison.js:263-275)
\* and, when this was the last refresh of initCountryComparison, so does the
\* initialisation (lines 63-66).
SnapshotLoaded ==
    /\ \E i \in DOMAIN calls, inflationOutcome \in Outcomes, wageOutcome \in Outcomes :
          SnapshotArrived(calls[i], RemoveAt(calls, i),
                          LoadedSnapshot[calls[i].key][inflationOutcome][wageOutcome].value)
    /\ UNCHANGED <<windowCurrentCountry, mainVars, fnArgs, fnRet>>

\* The request counted, and remembered when it comes before readiness.
Requested(h, country) ==
    [h EXCEPT !.syncs = @ + 1,
              !.preReady = IF comparisonModuleReady THEN @
                           ELSE [seen |-> TRUE, country |-> country]]

\* Line 83
SelectionApplied(applied) ==
    /\ pendingComparisonSelection' = NoName
    /\ state' = applied.state
    /\ calls' = calls \o applied.started
    /\ diffBaseNote' = IF applied.drawn THEN updateDiffSummary(applied.state)
                       ELSE diffBaseNote
    /\ hist' = applied.hist

\* syncComparisonCountry, country-comparison.js:78-84.
SyncComparisonCountry ==
    /\ hist.syncs < MaxSync
    /\ \E country \in SyncTargets :
         IF ~comparisonModuleReady
         THEN /\ pendingComparisonSelection' = country
              /\ hist' = Requested(hist, country)
              /\ UNCHANGED <<state, calls, diffBaseNote>>
         ELSE SelectionApplied(applyComparisonSelection(state, comparisonSnapshotCache,
                                                        Requested(hist, country), country,
                                                        "sync"))
    /\ UNCHANGED <<comparisonSnapshotCache, comparisonModuleReady, initPc,
                   windowCurrentCountry, mainVars, fnArgs, fnRet>>

Next ==
    \/ InitCountryComparison
    \/ InitCountriesLoaded
    \/ SnapshotLoaded
    \/ SyncComparisonCountry

Spec == Init /\ [][Next]_vars

(***************************************************************************)
(* C4.  When both sides hold snapshots built by                            *)
(* loadCountryComparisonSnapshot, each with a latest wage reading and      *)
(* Total inflation, and the two countries' wage series share a year,       *)
(* recomputeAlignment over state.data yields a pair whose baseYear is the  *)
(* chosen shared year (2020 if shared, else the smallest shared year),     *)
(* whose real value is calculateRealWage(latest nominal, Total series,     *)
(* latest year, shared year) and whose wageIndex is that value over the    *)
(* nominal at the shared year, times 100.                                  *)
(***************************************************************************)
WageSeriesOf(country) ==
    loadMinimumWageData(country, Fetched(WageResource(country), "ok")).value

TotalDatasetOf(country) ==
    loadInflationByCategories(country, Fetched("data/inflacao_portugal_europa.csv", "ok")).value

SharedWageYears ==
    DOMAIN WageSeriesOf(state.data.a.country) \cap DOMAIN WageSeriesOf(state.data.b.country)

ExpectedIndex(real, nominalAtYear) ==
    [alignedReal |-> real, wageIndex |-> RatMul(RatDiv(real, nominalAtYear), RatInt(100))]

ExpectedAlignment(snapshot, year) ==
    ExpectedIndex(calculateRealWage(snapshot.wage.nominal, TotalDatasetOf(snapshot.country),
                                    snapshot.wage.year, year),
                  WageSeriesOf(snapshot.country)[year])

C4_AlignedPairProduced ==
    (/\ state.data.a # Null /\ state.data.a.wage # Null /\ state.data.a.inflation # Null
     /\ state.data.b # Null /\ state.data.b.wage # Null /\ state.data.b.inflation # Null
     /\ SharedWageYears # {}) =>
        LET year == IF PREFERRED_SHARED_YEAR \in SharedWageYears THEN PREFERRED_SHARED_YEAR
                    ELSE CHOOSE y \in SharedWageYears : \A z \in SharedWageYears : y <= z
            aligned == recomputeAlignment(state.data)
        IN  /\ aligned # Null
            /\ aligned.baseYear = year
            /\ \A side \in {"a", "b"} :
                  /\ aligned[side].alignedReal # Null
                  /\ [alignedReal |-> aligned[side].alignedReal,
                      wageIndex |-> aligned[side].wageIndex]
                        = ExpectedAlignment(state.data[side], year)

(***************************************************************************)
(* C5.  Once a load for a key has completed and returned a snapshot, a     *)
(* later call for that key, whatever calls for other keys came in between, *)
(* issues no upstream load and returns that same snapshot.                 *)
(***************************************************************************)
C5_LaterCallReturnsFirstSnapshot ==
    hist.last.key # NoName =>
        /\ hist.last.loads = 0
        /\ hist.last.ret = hist.last.first

\* C5, as the code has it: the later call issues no upstream load and returns the
\* snapshot stored by the load for that key that completed last; a load for the same
\* key that was already in flight when the first one completed stores its own
\* snapshot over the first.
C5_LaterCallReturnsStoredSnapshot ==
    hist.last.key # NoName =>
        /\ hist.last.loads = 0
        /\ hist.last.ret = hist.last.latest

\* Witness: Espanha, loaded by the initialisation, is asked for again after França
\* has been loaded in between, and comes from the cache.
C5_Witness ==
    /\ hist.last.key = "Espanha"
    /\ "França" \in DOMAIN hist.first
    /\ hist.last.loads = 0
    /\ hist.last.ret = hist.last.latest
    /\ state.data.b = hist.last.ret
    /\ calls = <<>>

(***************************************************************************)
(* C6.  Requests made before the module is ready start no snapshot load,   *)
(* and at the step that makes the module ready the comparison country      *)
(* state.selected.b is the normalized last request.                        *)
(***************************************************************************)
C6_LastPendingApplied ==
    [][/\ (~comparisonModuleReady /\ hist'.syncs # hist.syncs) => calls' = calls
       /\ (~comparisonModuleReady /\ comparisonModuleReady' /\ hist.preReady.seen) =>
             state'.selected.b = normalizeToKnownCountry(hist.preReady.country, state'.countries)
      ]_vars

(***************************************************************************)
(* C7.  With the module ready and no load for side b in flight any more,   *)
(* state.data.b is the snapshot of the country in state.selected.b: the    *)
(* result of a superseded request has been discarded.                      *)
(***************************************************************************)
C7_SupersededResultDiscarded ==
    (comparisonModuleReady /\ \A i \in DOMAIN calls : calls[i].side # "b") =>
        IF state.selected.b = NoName THEN state.data.b = Null
        ELSE state.data.b # Null /\ state.data.b.country = state.selected.b

(***************************************************************************)
(* SpecProcess: processInflationData and loadInflationByCategories over    *)
(* short files of rows, with and without a country filter, the fetch of    *)
(* the file succeeding or not.                                             *)
(***************************************************************************)
ProcessRow(ano, pais, filtro, valor) ==
    [ano |-> ano, pais |-> pais, regiao |-> NoName, filtro |-> filtro, valor |-> valor]

ProcessRowSet ==
    { ProcessRow(IntText(PREFERRED_SHARED_YEAR), "Portugal", "Total", <<"2", ".", "4">>),
      ProcessRow(IntText(PREFERRED_SHARED_YEAR), "Portugal", "Total", <<"2", "5">>),
      ProcessRow(IntText(PREFERRED_SHARED_YEAR - 1), "Portugal", "Total", <<"-", "2", "0">>),
      ProcessRow(IntText(PREFERRED_SHARED_YEAR), "Portugal", "Habitação", <<"5">>),
      ProcessRow(IntText(PREFERRED_SHARED_YEAR + 1), "Espanha", "Total", <<"1">>),
      ProcessRow(IntText(PREFERRED_SHARED_YEAR + 1), NoName, "Habitação", <<"1", ".", "5">>),
      ProcessRow(<<>>, "Portugal", "Total", <<"3">>),
      ProcessRow(<<"x">>, "Portugal", "Total", <<"3">>),
      ProcessRow(IntText(PREFERRED_SHARED_YEAR), "Portugal", "Total", <<"x">>),
      ProcessRow(IntText(PREFERRED_SHARED_YEAR), "Portugal", "Total", <<>>),
      ProcessRow(IntText(PREFERRED_SHARED_YEAR + 1), "Portugal", "Total", InfinityText),
      ProcessRow(IntText(PREFERRED_SHARED_YEAR + 1), "Portugal", NoName, <<"3">>) }

ProcessFiles == UNION {[1..n -> ProcessRowSet] : n \in 0..MaxRows}

ProcessCountries == {NoName, "Portugal", "Spain", "Alemanha"}

ProcessFetches == {Throw("d3.csv rejected")} \cup {Return(file) : file \in ProcessFiles}

ProcessInit ==
    /\ ModulesAtRest
    /\ fnArgs \in [country : ProcessCountries, fetched : ProcessFetches]
    /\ fnRet = NotApplied

\* What processInflationData returns for the rows of the file (null when there are
\* none to give it) and what loadInflationByCategories completes with.
ProcessOutcome(country, data, fetched) ==
    [processed |-> IF data.value = NoArray THEN Null
                   ELSE processInflationData(data.value, country),
     loaded |-> loadInflationByCategories(country, fetched)]

ProcessApply ==
    /\ fnRet = NotApplied
    /\ fnRet' = Applied(ProcessOutcome(fnArgs.country, loadCSVData(fnArgs.fetched),
                                       fnArgs.fetched))
    /\ UNCHANGED fnArgs
    /\ ModulesUnchanged

ProcessNext == ProcessApply

SpecProcess == ProcessInit /\ [][ProcessNext]_vars

\* The rows of the file, the resolved filter name, the label of a row.
FileRows == fnArgs.fetched.value
FilterName == getPordataCountryName(fnArgs.country)
Processed == fnRet.value.processed
ProcessedFile == fnRet.done /\ fnArgs.fetched.kind = "return"

EmptyDataset == [categories |-> <<>>, years |-> <<>>]

(***************************************************************************)
(* C11.  With a country filter that no row of the file matches,            *)
(* processInflationData yields the empty dataset (no category, no year),   *)
(* loadInflationByCategories hands that dataset to its caller, and what it *)
(* hands over differs from what the same call returns when the fetch of    *)
(* the file fails.                                                         *)
(***************************************************************************)
NoRowMatches ==
    /\ FilterName # NoName
    /\ Len(FileRows) > 0
    /\ \A i \in 1..Len(FileRows) :
          CountryColumn(FileRows[i]) # NoName /\ CountryColumn(FileRows[i]) # FilterName

LabelMatches(d) == CountryColumn(d) = FilterName

C12_NonMatchingRowsSkipped ==
    (ProcessedFile /\ FilterName # NoName) =>
        /\ \A k \in 1..Len(Processed.years) :
              \E i \in 1..Len(FileRows) :
                  LabelMatches(FileRows[i]) /\ RowYear(FileRows[i]) = Processed.years[k]
        /\ \A c \in 1..Len(Processed.categories) :
              /\ \E i \in 1..Len(FileRows) :
                    LabelMatches(FileRows[i]) /\ FileRows[i].filtro = Processed.categories[c].name
              /\ \A j \in 1..Len(Processed.categories[c].values) :
                    \E i \in 1..Len(FileRows) :
                        /\ LabelMatches(FileRows[i])
                        /\ FileRows[i].filtro = Processed.categories[c].name
                        /\ RowYear(FileRows[i]) = Processed.categories[c].values[j].year
                        /\ parseFloat(FileRows[i].valor) = Processed.categories[c].values[j].value

(***************************************************************************)
(* C13.  Every entry {year, value} of a series comes from a row of that    *)
(* category whose year text is an integer numeral and whose value text     *)
(* parses to a finite number, and carries that year and that value: a row  *)
(* with an empty or unreadable year or value yields no entry, in           *)
(* particular none with year 0.                                            *)
(***************************************************************************)
IsIntegerText(text) ==
    /\ text # Undefined
    /\ Len(text) > 0
    /\ \A i \in 1..Len(text) : IsDigit(text[i])

IsFinite(number) == number[2] # 0

C13_EntriesFromParsedRows ==
    ProcessedFile =>
        \A c \in 1..Len(Processed.categories) :
            \A j \in 1..Len(Processed.categories[c].values) :
                /\ IsFinite(Processed.categories[c].values[j].value)
                /\ \E i \in 1..Len(FileRows) :
                      /\ FileRows[i].filtro = Processed.categories[c].name
                      /\ IsIntegerText(FileRows[i].ano)
                      /\ RowYear(FileRows[i]) = Processed.categories[c].values[j].year
                      /\ parseFloat(FileRows[i].valor) = Processed.categories[c].values[j].value

(***************************************************************************)
(* C14.  Each category's values are strictly ascending by year: in order,  *)
(* and no year twice, also when several valid rows carry the same category *)
(* and year.                                                               *)
(***************************************************************************)
C14_ValuesStrictlyAscending ==
    ProcessedFile =>
        \A c \in 1..Len(Processed.categories) :
            \A j \in 1..(Len(Processed.categories[c].values) - 1) :
                Processed.categories[c].values[j].year
                    < Processed.categories[c].values[j + 1].year

(***************************************************************************)
(* C15.  dataset.years is strictly ascending and holds exactly the years   *)
(* of the values of all categories; the categories have pairwise distinct  *)
(* names and each has one value at least.                                  *)
(***************************************************************************)
CategoryYears(category) == {category.values[j].year : j \in 1..Len(category.values)}

YearsOfCategories(dataset) ==
    UNION {CategoryYears(dataset.categories[c]) : c \in 1..Len(dataset.categories)}

C15_YearsAreTheUnion ==
    ProcessedFile =>
        /\ \A k \in 1..(Len(Processed.years) - 1) : Processed.years[k] < Processed.years[k + 1]
        /\ {Processed.years[k] : k \in 1..Len(Processed.years)} = YearsOfCategories(Processed)
        /\ \A c, d \in 1..Len(Processed.categories) :
              c # d => Processed.categories[c].name # Processed.categories[d].name
        /\ \A c \in 1..Len(Processed.categories) : Len(Processed.categories[c].values) > 0

\* Witness: two rows of different categories, the later year first; two categories
\* and the two years in ascending order.
C15_Witness ==
    /\ ProcessedFile
    /\ Len(FileRows) = 2
    /\ RowYear(FileRows[1]) > RowYear(FileRows[2])
    /\ Len(Processed.categories) = 2
    /\ Processed.years = <<RowYear(FileRows[2]), RowYear(FileRows[1])>>

(***************************************************************************)
(* loadIncomeAndInflationData, data-loader.js:784-882.  An income row is   *)
(* [ano, pais, valor]: "01. Ano", "02. Nome País (Europa)", "09. Valor".   *)
(***************************************************************************)
\* Lines 803-809
IncomeRowAccepted(row, targetCountry) ==
    /\ row.pais = targetCountry
    /\ parseInt(row.ano) # NaN /\ parseInt(row.ano) # RatInt(0)
    /\ ~Falsy(row.valor) /\ row.valor # <<"x">>
    /\ parseFloat(row.valor) # NaN

IncomeEntry(row) == [year |-> parseInt(row.ano)[1], incomeShare |-> parseFloat(row.valor)]

IncomeEntriesOf(accepted) == [i \in 1..Len(accepted) |-> IncomeEntry(accepted[i])]

\* Lines 799-820: the entries of the country, sorted by year.
CountryIncomeData(rows, targetCountry) ==
    SortByYear(IncomeEntriesOf(SelectSeq(rows, LAMBDA row : IncomeRowAccepted(row, targetCountry))))

\* Lines 840-846
InflationVariation(inflationRate, prevInflation) ==
    IF inflationRate # Null /\ prevInflation # Null
    THEN RatSub(inflationRate.value, prevInflation.value)
    ELSE Null

\* Variant for contrast: the previous entry is used whatever its year.
IncomeVariationBridging(countryIncomeData, i) ==
    IF i > 1
    THEN RatSub(countryIncomeData[i].incomeShare, countryIncomeData[i - 1].incomeShare)
    ELSE Null

\* Lines 849-856
IncomeVariation(countryIncomeData, i) ==
    IF i > 1 /\ countryIncomeData[i - 1].year = countryIncomeData[i].year - 1
    THEN RatSub(countryIncomeData[i].incomeShare, countryIncomeData[i - 1].incomeShare)
    ELSE Null

\* Lines 859-865: the record of entry i, which has an inflation rate.
CombinedAt(countryIncomeData, i, values) ==
    [year |-> countryIncomeData[i].year,
     incomeShare |-> countryIncomeData[i].incomeShare,
     inflationRate |-> FindByYear(values, countryIncomeData[i].year).value,
     inflationVariation |-> InflationVariation(FindByYear(values, countryIncomeData[i].year),
                                FindByYear(values, countryIncomeData[i].year - 1)),
     incomeVariation |-> IncomeVariation(countryIncomeData, i)]

\* Lines 832-867: the loop; entries without an inflation rate give no record.
RECURSIVE CombinedFrom(_, _, _)
CombinedFrom(countryIncomeData, i, values) ==
    IF i > Len(countryIncomeData) THEN <<>>
    ELSE (IF FindByYear(values, countryIncomeData[i].year) # Null
          THEN <<CombinedAt(countryIncomeData, i, values)>> ELSE <<>>)
         \o CombinedFrom(countryIncomeData, i + 1, values)

\* Lines 869-873
IncomeDataForCountry(countryIncomeData, values, targetCountry) ==
    [data |-> CombinedFrom(countryIncomeData, 1, values),
     years |-> SortNumbers(Dedupe(MapYear(countryIncomeData))),
     country |-> targetCountry]

\* Lines 822-827
IncomeWithTotal(countryIncomeData, totalInflation, targetCountry) ==
    IF totalInflation = Null THEN Null
    ELSE IncomeDataForCountry(countryIncomeData, totalInflation.values, targetCountry)

\* poorIncomeCSV and inflationData are what the two loads of line 789 returned.
loadIncomeAndInflationData(country, poorIncomeCSV, inflationData) ==
    IF poorIncomeCSV = NoArray \/ inflationData = Null THEN Null
    ELSE IncomeWithTotal(CountryIncomeData(poorIncomeCSV, getPordataCountryName(country)),
                         FindCategory(inflationData.categories, "Total"),
                         getPordataCountryName(country))

(***************************************************************************)
(* SpecIncome: loadIncomeAndInflationData over short income files and      *)
(* Total series with and without gap years.                                *)
(***************************************************************************)
IncomeYears == (PREFERRED_SHARED_YEAR - 2) .. (PREFERRED_SHARED_YEAR + 1)

IncomeRow(year, pais, valor) == [ano |-> IntText(year), pais |-> pais, valor |-> valor]

IncomeRowSet ==
    { IncomeRow(PREFERRED_SHARED_YEAR - 2, "Portugal", <<"7">>),
      IncomeRow(PREFERRED_SHARED_YEAR - 1, "Portugal", <<"7", ".", "5">>),
      IncomeRow(PREFERRED_SHARED_YEAR, "Portugal", <<"8">>),
      IncomeRow(PREFERRED_SHARED_YEAR + 1, "Portugal", <<"6">>),
      IncomeRow(PREFERRED_SHARED_YEAR, "Portugal", <<"x">>),
      IncomeRow(PREFERRED_SHARED_YEAR - 1, "Espanha", <<"9">>) }

IncomeFiles == UNION {[1..n -> IncomeRowSet] : n \in 0..MaxIncomeLen}

\* The Total rate of a year in the series of the model.
TotalRate(year) ==
    CASE year = PREFERRED_SHARED_YEAR - 2 -> <<1, 1>>
      [] year = PREFERRED_SHARED_YEAR - 1 -> <<12, 5>>
      [] year = PREFERRED_SHARED_YEAR     -> <<0 - 20, 1>>
      [] OTHER                            -> <<25, 1>>

TotalEntriesOf(years) == [i \in 1..Len(years) |-> [year |-> years[i], value |-> TotalRate(years[i])]]

\* A dataset as loadInflationByCategories returns it: with a Total series over some
\* of the years, or with another category only.
IncomeDataset(shape) ==
    IF shape.total
    THEN [categories |-> <<OtherCategory,
                           [name |-> "Total", values |-> TotalEntriesOf(AscendingYears(shape.years))]>>]
    ELSE [categories |-> <<OtherCategory>>]

IncomeDatasetShapes ==
    [total : {TRUE}, years : (SUBSET IncomeYears) \ {{}}] \cup {[total |-> FALSE, years |-> {}]}

IncomeInit ==
    /\ ModulesAtRest
    /\ fnArgs \in [country : {"Portugal"}, file : IncomeFiles, shape : IncomeDatasetShapes]
    /\ fnRet = NotApplied

IncomeApply ==
    /\ fnRet = NotApplied
    /\ fnRet' = Applied(loadIncomeAndInflationData(fnArgs.country, fnArgs.file,
                                                   IncomeDataset(fnArgs.shape)))
    /\ UNCHANGED fnArgs
    /\ ModulesUnchanged

IncomeNext == IncomeApply

SpecIncome == IncomeInit /\ [][IncomeNext]_vars

(***************************************************************************)
(* C16.  In every record for a year Y: an inflation variation is there     *)
(* only when the Total series has a value for Y and for Y - 1, and is      *)
(* rate(Y) - rate(Y - 1); an income variation is there only when the       *)
(* country has an income entry for Y - 1, and is the record's share minus  *)
(* the share of such an entry.  No variation bridges a gap.                *)
(***************************************************************************)
TotalYearsOfShape == IF fnArgs.shape.total THEN fnArgs.shape.years ELSE {}

AcceptedShares(year) ==
    {parseFloat(fnArgs.file[i].valor) :
        i \in {k \in 1..Len(fnArgs.file) :
                  /\ IncomeRowAccepted(fnArgs.file[k], "Portugal")
                  /\ parseInt(fnArgs.file[k].ano) = RatInt(year)}}

VariationsAdjacent(record) ==
    /\ record.inflationVariation # Null =>
          /\ record.year \in TotalYearsOfShape
          /\ record.year - 1 \in TotalYearsOfShape
          /\ record.inflationVariation = RatSub(TotalRate(record.year), TotalRate(record.year - 1))
    /\ record.incomeVariation # Null =>
          \E previous \in AcceptedShares(record.year - 1) :
              record.incomeVariation = RatSub(record.incomeShare, previous)

C16_VariationsOnlyAcrossAdjacentYears ==
    (fnRet.done /\ fnRet.value # Null) =>
        \A k \in 1..Len(fnRet.value.data) : VariationsAdjacent(fnRet.value.data[k])

\* Witness: income entries for 2018, 2020 and 2021 and a Total series without 2019:
\* the record of 2020 has neither variation, the record of 2021 has both.
C16_Witness ==
    /\ fnRet.done /\ fnRet.value # Null
    /\ fnArgs.shape.years = IncomeYears \ {PREFERRED_SHARED_YEAR - 1}
    /\ Len(fnRet.value.data) = 3
    /\ fnRet.value.data[1].year = PREFERRED_SHARED_YEAR - 2
    /\ fnRet.value.data[2].year = PREFERRED_SHARED_YEAR
    /\ fnRet.value.data[2].inflationVariation = Null
    /\ fnRet.value.data[2].incomeVariation = Null
    /\ fnRet.value.data[3].inflationVariation = <<45, 1>>
    /\ fnRet.value.data[3].incomeVariation = <<0 - 2, 1>>

(***************************************************************************)
(* C17.  A year of the span without a Total rate contributes the factor 1: *)
(* with a Total category the result is a number, never null, and it is the *)
(* result for the series and the span with that year taken out (the later  *)
(* years moved one year down).                                             *)
(***************************************************************************)
CalcData == CalcDataset(fnArgs.shape, fnArgs.series)

GapYears(series, lo, hi) ==
    {g \in (lo + 1)..hi : \A i \in 1..Len(series) : series[i].year # g}

CloseGap(series, g) ==
    [i \in 1..Len(series) |->
        IF series[i].year > g THEN [series[i] EXCEPT !.year = @ - 1] ELSE series[i]]

ResultWithoutGap(g) ==
    IF fnArgs.year > fnArgs.baseYear
    THEN calculateRealWage(fnArgs.nominalWage, CalcDataset(fnArgs.shape, CloseGap(fnArgs.series, g)),
                           fnArgs.year - 1, fnArgs.baseYear)
    ELSE calculateRealWage(fnArgs.nominalWage, CalcDataset(fnArgs.shape, CloseGap(fnArgs.series, g)),
                           fnArgs.year, fnArgs.baseYear - 1)

C17_GapYearIsNeutral ==
    fnRet.done =>
        /\ fnRet.value # Null
        /\ \A g \in GapYears(fnArgs.series, Min2(fnArgs.year, fnArgs.baseYear),
                             Max2(fnArgs.year, fnArgs.baseYear)) :
              fnRet.value = ResultWithoutGap(g)

\* Witness: rates for the year before the gap and the year after it, the span running
\* over the gap: 500 / 1.024, as without the gap year.
C17_Witness ==
    /\ fnRet.done
    /\ fnArgs.nominalWage = RatInt(500)
    /\ fnArgs.baseYear = DEFAULT_BASE_YEAR - 1
    /\ fnArgs.year = DEFAULT_BASE_YEAR + 1
    /\ Len(fnArgs.series) = 2
    /\ fnArgs.series[1] = [year |-> DEFAULT_BASE_YEAR - 1, value |-> <<0 - 20, 1>>]
    /\ fnArgs.series[2] = [year |-> DEFAULT_BASE_YEAR + 1, value |-> <<12, 5>>]
    /\ fnRet.value = <<15625, 32>>

(***************************************************************************)
(* C19.  Compounding composes: adjusting to an intermediate year and from  *)
(* there to the base year gives what adjusting directly gives, in both     *)
(* directions.                                                             *)
(***************************************************************************)
ResultVia(mid) ==
    calculateRealWage(calculateRealWage(fnArgs.nominalWage, CalcData, fnArgs.year, mid),
                      CalcData, mid, fnArgs.baseYear)

C19_CompoundingComposes ==
    fnRet.done =>
        \A mid \in CalcYears :
            ((fnArgs.baseYear < mid /\ mid < fnArgs.year)
                \/ (fnArgs.year < mid /\ mid < fnArgs.baseYear)) => ResultVia(mid) = fnRet.value

\* Witness: a rate in each of the two halves of the span.
C19_Witness ==
    /\ fnRet.done
    /\ fnArgs.baseYear = DEFAULT_BASE_YEAR - 1
    /\ fnArgs.year = DEFAULT_BASE_YEAR + 1
    /\ \E i, j \in 1..Len(fnArgs.series) :
          /\ fnArgs.series[i].year = DEFAULT_BASE_YEAR
          /\ fnArgs.series[j].year = DEFAULT_BASE_YEAR + 1
    /\ ResultVia(DEFAULT_BASE_YEAR) = fnRet.value
    /\ fnRet.value # fnArgs.nominalWage

AggregateShapes == {"absent", "empty", "other", "others", "lowercase"}

AggregateDataset(shape, series) ==
    CASE shape = "absent"    -> Null
      [] shape = "empty"     -> [categories |-> <<>>]
      [] shape = "other"     -> [categories |-> <<[name |-> "Habitação", values |-> series]>>]
      [] shape = "others"    -> [categories |-> <<[name |-> "Alimentação", values |-> series],
                                                  OtherCategory>>]
      [] shape = "lowercase" -> [categories |-> <<[name |-> "total", values |-> series]>>]

AggregateInit ==
    /\ ModulesAtRest
    /\ fnArgs \in [nominalWage : CalcNominals, shape : AggregateShapes,
                   series : CalcSeries, year : CalcYears, baseYear : CalcYears]
    /\ fnRet = NotApplied

AggregateApply ==
    /\ fnRet = NotApplied
    /\ fnRet' = Applied(calculateRealWage(fnArgs.nominalWage,
                            AggregateDataset(fnArgs.shape, fnArgs.series),
                            fnArgs.year, fnArgs.baseYear))
    /\ UNCHANGED fnArgs
    /\ ModulesUnchanged

AggregateNext == AggregateApply

SpecAggregate == AggregateInit /\ [][AggregateNext]_vars

(***************************************************************************)
(* C18.  Without a dataset, without categories or without a category named *)
(* "Total" the result is null for every nominal value, year and base year, *)
(* the base year itself included: no error, and no number computed from    *)
(* another category.                                                       *)
(***************************************************************************)
C18_NullWithoutTotal ==
    fnRet.done => fnRet.value = Null

\* Witness: the only category is another one and has a rate inside the span.
C18_Witness ==
    /\ fnRet.done
    /\ fnArgs.shape = "other"
    /\ fnArgs.year > fnArgs.baseYear
    /\ \E i \in 1..Len(fnArgs.series) : fnArgs.series[i].year = fnArgs.year
    /\ fnRet.value = Null

(***************************************************************************)
(* SpecResolve: the three resolvers over every spelling of the mapping     *)
(* table, an absent name, and names the table does not hold (an unknown    *)
(* country, and known countries in another letter case or spelling).       *)
(***************************************************************************)
Conventions == {"pordata", "eurostat", "display"}

UnmappedNames == {"Atlantis", "portugal", "SPAIN", "Turkiye", "Kosovo"}

ResolveNames == MappedNames \cup UnmappedNames \cup {NoName}

\* data-loader.js:301-320: one resolver per target convention.
resolve(name, convention) ==
    CASE convention = "pordata"  -> getPordataCountryName(name)
      [] convention = "eurostat" -> getEurostatCountryName(name)
      [] convention = "display"  -> getDisplayCountryName(name)

ResolveInit ==
    /\ ModulesAtRest
    /\ fnArgs \in [name : ResolveNames, convention : Conventions]
    /\ fnRet = NotApplied

ResolveApply ==
    /\ fnRet = NotApplied
    /\ fnRet' = Applied(resolve(fnArgs.name, fnArgs.convention))
    /\ UNCHANGED fnArgs
    /\ ModulesUnchanged

ResolveNext == ResolveApply

SpecResolve == ResolveInit /\ [][ResolveNext]_vars

C22_ResolveViaCanonical ==
    (fnRet.done /\ fnArgs.name \in MappedNames) =>
        fnRet.value = resolve(getPordataCountryName(fnArgs.name), fnArgs.convention)

(***************************************************************************)
(* SpecCache: loadCountryComparisonSnapshot called directly, any number of *)
(* times up to MaxRequests and with any spelling, while earlier calls are  *)
(* still waiting for their two files.                                      *)
(***************************************************************************)
MaxRequests == 2

CacheCountries == {NoName, "Portugal", "Espanha", "Spain", "espanha"}

CacheKeys == {TargetCountry(country) : country \in CacheCountries}

LoadNames == {"inflation", "wage"}

\* What a call returns on a cache miss, by its key and the outcomes of its two
\* d3.csv requests (data-loader.js:651-713).
RequestedSnapshot ==
    [targetCountry \in CacheKeys |->
        [inflationOutcome \in Outcomes |->
            [wageOutcome \in Outcomes |->
                SnapshotAfterLoads(
                    targetCountry,
                    loadInflationByCategories(targetCountry,
                        Fetched("data/inflacao_portugal_europa.csv", inflationOutcome)),
                    loadMinimumWageData(targetCountry,
                        Fetched(WageResource(targetCountry), wageOutcome)))]]]

\* Observation only: the latest call and the latest completed build.
NoRequest ==
    [count |-> 0, country |-> NoName, key |-> NoName, cachedKeys |-> {}, loads |-> 0,
     ret |-> Null]

NoCompletion == [done |-> FALSE]

CacheInit ==
    /\ ModulesAtRest
    /\ fnArgs = NoRequest
    /\ fnRet = NoCompletion

\* Variant for contrast: a call made while another call for the key is in flight
\* issues no load of its own.
StartedCallDeduplicated(targetCountry, inFlight) ==
    IF \E j \in DOMAIN inFlight : inFlight[j].key = targetCountry
    THEN [key |-> targetCountry, inflation |-> "shared", wage |-> "shared",
          overlapped |-> TRUE]
    ELSE [key |-> targetCountry, inflation |-> "pending", wage |-> "pending",
          overlapped |-> FALSE]

\* Lines 652-655: Promise.all over one inflation load and one wage load.
StartedCall(targetCountry, inFlight) ==
    [key |-> targetCountry, inflation |-> "pending", wage |-> "pending",
     overlapped |-> \E j \in DOMAIN inFlight : inFlight[j].key = targetCountry]

PendingLoads(call) == Cardinality({load \in LoadNames : call[load] = "pending"})

\* Observation only: calls for the key that are in flight now overlap a later one.
Overlapping(inFlight, targetCountry) ==
    [j \in DOMAIN inFlight |->
        IF inFlight[j].key = targetCountry THEN [inFlight[j] EXCEPT !.overlapped = TRUE]
        ELSE inFlight[j]]

Requesting(country, targetCountry, loads, ret) ==
    [count |-> fnArgs.count + 1, country |-> country, key |-> targetCountry,
     cachedKeys |-> DOMAIN comparisonSnapshotCache, loads |-> loads, ret |-> ret]

\* Lines 645-655: the cache answers, or the two loads are issued.
RequestSnapshot ==
    /\ fnArgs.count < MaxRequests
    /\ \E country \in CacheCountries :
         IF Cached(comparisonSnapshotCache, TargetCountry(country))
         THEN /\ fnArgs' = Requesting(country, TargetCountry(country), 0,
                                      comparisonSnapshotCache[TargetCountry(country)])
              /\ UNCHANGED calls
         ELSE /\ fnArgs' = Requesting(country, TargetCountry(country),
                                      PendingLoads(StartedCall(TargetCountry(country), calls)),
                                      Null)
              /\ calls' = Append(Overlapping(calls, TargetCountry(country)),
                                 StartedCall(TargetCountry(country), calls))
    /\ UNCHANGED <<comparisonSnapshotCache, state, comparisonModuleReady,
                   pendingComparisonSelection, initPc, windowCurrentCountry, mainVars, diffBaseNote,
                   hist, fnRet>>

\* One of the two files of a call arrives while the other is still awaited.
LoadArrived ==
    /\ \E i \in DOMAIN calls, load \in LoadNames, outcome \in Outcomes :
          /\ calls[i][load] = "pending"
          /\ PendingLoads(calls[i]) = 2
          /\ calls' = [calls EXCEPT ![i][load] = outcome]
    /\ UNCHANGED <<comparisonSnapshotCache, state, comparisonModuleReady,
                   pendingComparisonSelection, initPc, windowCurrentCountry, mainVars, diffBaseNote,
                   hist, fnArgs, fnRet>>

BuildCompleted(call, snapshot) ==
    [done |-> TRUE, key |-> call.key, inflation |-> call.inflation, wage |-> call.wage,
     overlapped |-> call.overlapped, value |-> snapshot]

SnapshotBuilt(call, rest, snapshot) ==
    /\ comparisonSnapshotCache' = CacheAfterLoad(comparisonSnapshotCache, call, snapshot)
    /\ calls' = rest
    /\ fnRet' = BuildCompleted(call, snapshot)

\* The second file of a call arrives: lines 657-713 build, store and return.
BuildSnapshotCompleted ==
    /\ \E i \in DOMAIN calls, load \in LoadNames, outcome \in Outcomes :
          /\ calls[i][load] = "pending"
          /\ PendingLoads(calls[i]) = 1
          /\ SnapshotBuilt([calls[i] EXCEPT ![load] = outcome], RemoveAt(calls, i),
                           RequestedSnapshot[calls[i].key]
                               [IF load = "inflation" THEN outcome ELSE calls[i].inflation]
                               [IF load = "wage" THEN outcome ELSE calls[i].wage].value)
    /\ UNCHANGED <<state, comparisonModuleReady, pendingComparisonSelection, initPc,
                   windowCurrentCountry, mainVars, diffBaseNote, hist, fnArgs>>

CacheNext ==
    \/ RequestSnapshot
    \/ LoadArrived
    \/ BuildSnapshotCompleted

SpecCache == CacheInit /\ [][CacheNext]_vars

\* C23: a call whose name resolves to the canonical name of a key that is in
\* the cache when the call is made is answered from the cache without any
\* load, and no two keys of the cache resolve to one canonical name; names
\* that differ only in letter case are distinct keys.
C23_CanonicalKeyShared ==
    /\ \A k \in fnArgs.cachedKeys :
          getPordataCountryName(k) = getPordataCountryName(fnArgs.key) => fnArgs.loads = 0
    /\ \A k1, k2 \in DOMAIN comparisonSnapshotCache :
          getPordataCountryName(k1) = getPordataCountryName(k2) => k1 = k2

\* A call for the key is in flight before the step and has completed in it.
CompletesFor(k) ==
    \E i \in DOMAIN calls : calls[i].key = k /\ calls' = RemoveAt(calls, i)

EntryKept(k) ==
    /\ k \in DOMAIN comparisonSnapshotCache'
    /\ comparisonSnapshotCache'[k] # Null
    /\ comparisonSnapshotCache'[k] # comparisonSnapshotCache[k] => CompletesFor(k)

\* C24: in every step, an entry of the cache stays in the cache and holds a
\* snapshot; an entry is created or gets another content only in a step in
\* which a call for that very key completes.
C24_CacheAppendOnly ==
    [][\A k \in CacheKeys :
          IF k \in DOMAIN comparisonSnapshotCache THEN EntryKept(k)
          ELSE k \in DOMAIN comparisonSnapshotCache' => CompletesFor(k)]_vars

\* The second of two overlapping calls for one key has completed and replaced
\* the entry the first one stored.
C24_Witness ==
    /\ fnRet.done
    /\ fnRet.overlapped
    /\ \A j \in DOMAIN calls : calls[j].key # fnRet.key
    /\ comparisonSnapshotCache[fnRet.key] = fnRet.value

\* C25: every call that misses the cache issues its own two loads, also while
\* another call for the same key is in flight; every overlapping call
\* completes with a snapshot, and after it the cache holds for the key the
\* snapshot a single call with the same two load outcomes produces.
C25_ConcurrentBuildsAgree ==
    /\ (fnArgs.count > 0 /\ fnArgs.key \notin fnArgs.cachedKeys) => fnArgs.loads = 2
    /\ (fnRet.done /\ fnRet.overlapped) =>
          /\ fnRet.value # Null
          /\ fnRet.key \in DOMAIN comparisonSnapshotCache
          /\ comparisonSnapshotCache[fnRet.key]
                = RequestedSnapshot[fnRet.key][fnRet.inflation][fnRet.wage].value

\* Two calls for one key were in flight together; both have completed, the
\* later one with a failed inflation load.
C25_Witness ==
    /\ fnRet.done
    /\ fnRet.overlapped
    /\ fnRet.inflation = "failed"
    /\ fnArgs.count = 2
    /\ fnArgs.loads = 2
    /\ calls = <<>>

(***************************************************************************)
(* loadBulletGraphData, data-loader.js:577-642: the part after the two     *)
(* loads, given what they returned.                                        *)
(***************************************************************************)
FIRST_BULLET_YEAR == 1974     \* line 592: .filter(year => year >= 1974)

\* Lines 590-593
AvailableYears(wageData) ==
    AscendingYears({year \in DOMAIN wageData : year >= FIRST_BULLET_YEAR})

\* Lines 610-621: the years whose real wage is not null, each with its entry.
BulletData(wageData, inflationData, availableYears, baseYear) ==
    [year \in {y \in DOMAIN wageData :
                  /\ Includes(availableYears, y)
                  /\ calculateRealWage(wageData[y], inflationData, y, baseYear) # Null} |->
        [year |-> year, nominal |-> wageData[year],
         real |-> calculateRealWage(wageData[year], inflationData, year, baseYear),
         baseYear |-> baseYear]]

\* Lines 624-633
BulletResult(bulletData, availableYears, baseYear, baseNominal) ==
    IF DOMAIN bulletData = {} THEN Null
    ELSE [data |-> bulletData,
          years |-> SelectSeq(availableYears, LAMBDA year : year \in DOMAIN bulletData),
          baseYear |-> baseYear, baseNominal |-> baseNominal]

\* Lines 600-633
BulletFromBase(wageData, inflationData, availableYears, baseYear) ==
    BulletResult(BulletData(wageData, inflationData, availableYears, baseYear),
                 availableYears, baseYear, wageData[baseYear])

\* Lines 595-601
BulletOfYears(wageData, inflationData, availableYears) ==
    IF Len(availableYears) = 0 THEN Null
    ELSE BulletFromBase(wageData, inflationData, availableYears,
                        IF Includes(availableYears, DEFAULT_BASE_YEAR) THEN DEFAULT_BASE_YEAR
                        ELSE availableYears[1])

loadBulletGraphData(wageData, inflationData) ==
    IF wageData = Null \/ inflationData = Null THEN Null
    ELSE BulletOfYears(wageData, inflationData, AvailableYears(wageData))

(***************************************************************************)
(* SpecWage: the snapshot builder and loadBulletGraphData over the same    *)
(* wage series and inflation dataset.  A series has no year or at least    *)
(* two years, between the year before the first bullet year and the years  *)
(* around 2012; one of its values may be 0.                                *)
(***************************************************************************)
WageHarnessYears ==
    {FIRST_BULLET_YEAR - 1, FIRST_BULLET_YEAR}
        \cup ((DEFAULT_BASE_YEAR - 1) .. (DEFAULT_BASE_YEAR - 1 + YearSpan))

WageHarnessSeries(years, zeroAt) ==
    [year \in years |-> IF year = zeroAt THEN RatInt(0) ELSE RatInt(year - 1500)]

WageInflationShapes == {"absent", "other", "total", "late"}

\* Total rates of 25 % and of -20 %.
WageInflationDataset(shape) ==
    CASE shape = "absent" -> Null
      [] shape = "other"  -> [categories |-> <<OtherCategory>>]
      [] shape = "total"  ->
            [categories |-> <<[name |-> "Total",
                               values |-> <<[year |-> FIRST_BULLET_YEAR, value |-> <<25, 1>>],
                                            [year |-> DEFAULT_BASE_YEAR, value |-> <<0 - 20, 1>>],
                                            [year |-> DEFAULT_BASE_YEAR + 1, value |-> <<25, 1>>]>>]>>]
      [] shape = "late"   ->
            [categories |-> <<OtherCategory,
                              [name |-> "Total",
                               values |-> <<[year |-> DEFAULT_BASE_YEAR + YearSpan + 5,
                                             value |-> <<25, 1>>]>>]>>]

WageInit ==
    /\ ModulesAtRest
    /\ fnArgs \in [years : {ys \in SUBSET WageHarnessYears : Cardinality(ys) # 1},
                   zeroAt : WageHarnessYears \cup {NoYear},
                   inflation : WageInflationShapes]
    /\ fnRet = NotApplied

WageBuilt(wageData, inflationData) ==
    [snapshot |-> BuildSnapshot("Portugal", inflationData, wageData),
     bullet |-> loadBulletGraphData(wageData, inflationData)]

WageApply ==
    /\ fnRet = NotApplied
    /\ fnRet' = Applied(WageBuilt(WageHarnessSeries(fnArgs.years, fnArgs.zeroAt),
                                  WageInflationDataset(fnArgs.inflation)))
    /\ UNCHANGED fnArgs
    /\ ModulesUnchanged

WageNext == WageApply

SpecWage == WageInit /\ [][WageNext]_vars

LeastYear(years) == CHOOSE y \in years : \A z \in years : y <= z

GreatestYear(years) == CHOOSE y \in years : \A z \in years : z <= y

PreferredBase(years) ==
    IF DEFAULT_BASE_YEAR \in years THEN DEFAULT_BASE_YEAR ELSE LeastYear(years)

\* C26: the base year is 2012 when the wage series has an entry for 2012 and
\* else the earliest year of the series, in the snapshot and in the per-year
\* series alike, so the two builders agree on it; every entry of the per-year
\* series carries the base year of its result.
C26_SameBaseYear ==
    fnRet.done =>
        /\ fnRet.value.snapshot.wage # Null =>
              fnRet.value.snapshot.wage.baseYear = PreferredBase(fnArgs.years)
        /\ fnRet.value.bullet # Null =>
              /\ fnRet.value.bullet.baseYear = PreferredBase(fnArgs.years)
              /\ \A y \in DOMAIN fnRet.value.bullet.data :
                    fnRet.value.bullet.data[y].baseYear = fnRet.value.bullet.baseYear

\* The snapshot's wage field and the series it was built from.
BuiltWage == fnRet.value.snapshot.wage

BuiltFrom == WageHarnessSeries(fnArgs.years, fnArgs.zeroAt)

\* C27 as stated: in a snapshot with a wage field the index is
\* (real / baseNominal) * 100 whenever the series has a nominal value at the
\* base year.
C27_IndexWheneverBaseNominal ==
    (fnRet.done /\ BuiltWage # Null /\ BuiltWage.baseYear \in DOMAIN BuiltFrom) =>
        /\ BuiltWage.index # Null
        /\ BuiltWage.index = RatMul(RatDiv(BuiltWage.real, BuiltWage.baseNominal), RatInt(100))

IndexOf(real, baseNominal) ==
    IF real # Null /\ baseNominal[1] # 0
    THEN RatMul(RatDiv(real, baseNominal), RatInt(100)) ELSE Null

\* C27, amended: in a snapshot with a wage field the index is
\* (real / baseNominal) * 100 whenever real is present and the nominal value
\* at the base year is not zero, and null otherwise; real is
\* calculateRealWage(latest nominal, inflation dataset, latest wage year,
\* base year), and the latest wage year is the greatest year of the wage
\* series whatever years the inflation dataset has.
C27_IndexWhenRealAndBaseNominal ==
    (fnRet.done /\ BuiltWage # Null) =>
        /\ BuiltWage.year = GreatestYear(fnArgs.years)
        /\ BuiltWage.nominal = BuiltFrom[BuiltWage.year]
        /\ BuiltWage.baseNominal = BuiltFrom[BuiltWage.baseYear]
        /\ BuiltWage.real = calculateRealWage(BuiltWage.nominal,
                                              WageInflationDataset(fnArgs.inflation),
                                              BuiltWage.year, BuiltWage.baseYear)
        /\ BuiltWage.index = IndexOf(BuiltWage.real, BuiltWage.baseNominal)

\* An index was computed while the latest wage year differs from the latest
\* year of the Total series.
C27_Witness ==
    /\ fnRet.done
    /\ BuiltWage # Null
    /\ BuiltWage.index # Null
    /\ BuiltWage.real # BuiltWage.nominal
    /\ fnRet.value.snapshot.inflation # Null
    /\ fnRet.value.snapshot.inflation.year # BuiltWage.year

MaxChanges == 3

ChangeCountries == {NoName, "Portugal", "Espanha", "França"}

Views == {"data", "empty", "error"}

\* Line 409: const targetCountry = selectedCountry || "Portugal"
ChangeTarget(selectedCountry) ==
    IF selectedCountry = NoName THEN DEFAULT_COUNTRY ELSE selectedCountry

\* Variant for contrast: the guard is not consulted.
AcceptedUnguarded(changing, force, current, targetCountry) ==
    force \/ current # targetCountry

\* Lines 411-418: the two early returns.
Accepted(changing, force, current, targetCountry) ==
    ~changing /\ (force \/ current # targetCountry)

ChangeInit ==
    /\ ModulesConstructed
    /\ windowCurrentCountry = DEFAULT_COUNTRY
    /\ fnArgs = Null
    /\ fnRet = NotApplied

Logged(country, force) ==
    [calls |-> changeLog.calls + 1, country |-> country, force |-> force]

\* Lines 420-435: the guard is taken, the page's country is set and the first
\* display load is awaited.
ChangeStarted(targetCountry) ==
    /\ isChangingCountry' = TRUE
    /\ windowCurrentCountry' = targetCountry
    /\ changeCall' = [pc |-> 1, target |-> targetCountry]

\* changeCountry up to its first await, or to one of its early returns.
ChangeCountry ==
    /\ changeLog.calls < MaxChanges
    /\ \E selectedCountry \in ChangeCountries, force \in BOOLEAN :
          /\ changeLog' = Logged(selectedCountry, force)
          /\ IF Accepted(isChangingCountry, force, windowCurrentCountry,
                         ChangeTarget(selectedCountry))
             THEN ChangeStarted(ChangeTarget(selectedCountry))
             ELSE UNCHANGED <<isChangingCountry, windowCurrentCountry, changeCall>>
    /\ UNCHANGED <<comparisonSnapshotCache, calls, state, comparisonModuleReady,
                   pendingComparisonSelection, initPc, diffBaseNote, hist, shown,
                   fnArgs, fnRet>>

\* Variant for contrast: the guard stays taken after the last load.
AfterDisplayKeepingGuard(call) ==
    IF call.pc = Len(DisplayLoads)
    THEN [changing |-> TRUE, call |-> NoChange]
    ELSE [changing |-> TRUE, call |-> [call EXCEPT !.pc = @ + 1]]

\* Lines 435-445: the next load is awaited; after the last one the finally block
\* releases the guard.
AfterDisplay(call) ==
    IF call.pc = Len(DisplayLoads)
    THEN [changing |-> FALSE, call |-> NoChange]
    ELSE [changing |-> TRUE, call |-> [call EXCEPT !.pc = @ + 1]]

DisplaySettled(view, after) ==
    /\ shown' = [shown EXCEPT ![DisplayLoads[changeCall.pc]] =
                                 [country |-> changeCall.target, view |-> view]]
    /\ isChangingCountry' = after.changing
    /\ changeCall' = after.call

\* The display load the call awaits settles and changeCountry resumes.
DisplayLoaded ==
    /\ changeCall.pc > 0
    /\ \E view \in Views : DisplaySettled(view, AfterDisplay(changeCall))
    /\ UNCHANGED <<comparisonSnapshotCache, calls, state, comparisonModuleReady,
                   pendingComparisonSelection, initPc, windowCurrentCountry, diffBaseNote,
                   hist, changeLog, fnArgs, fnRet>>

ChangeNext ==
    \/ ChangeCountry
    \/ DisplayLoaded

SpecChange == ChangeInit /\ [][ChangeNext]_vars

\* The visualizations whose load the call in flight has already awaited.
LoadedByCall == {DisplayLoads[i] : i \in 1..(changeCall.pc - 1)}

SequentialForTarget ==
    IF isChangingCountry
    THEN /\ changeCall.pc > 0
         /\ changeCall.target = windowCurrentCountry
         /\ \A v \in LoadedByCall : shown[v].country = changeCall.target
    ELSE /\ changeCall.pc = 0
         /\ \A v \in Visualizations : shown[v].country = windowCurrentCountry

CallMade == changeLog'.calls # changeLog.calls

\* C29: a changeCountry call made while the guard is taken changes nothing:
\* not the page's country, not the call in flight, not a visualization.  The
\* accepted call awaits its loads in order, each for its own target, which is
\* the page's country; when no call is in flight every visualization was last
\* loaded for the page's country.
C29_GuardedAndSequential ==
    /\ []SequentialForTarget
    /\ [][(isChangingCountry /\ CallMade) =>
              UNCHANGED <<windowCurrentCountry, isChangingCountry, changeCall, shown>>]_vars

\* A call for another country was made while a change was in flight; the change
\* has completed and all four visualizations show its target.
C29_Witness ==
    /\ ~isChangingCountry
    /\ changeLog.calls = 2
    /\ changeLog.country = "França"
    /\ windowCurrentCountry = "Espanha"
    /\ \A v \in Visualizations : shown[v].country = "Espanha"

(***************************************************************************)
(* SpecChangeLive: every display load settles (the files are served or the *)
(* requests fail), so the step that resumes changeCountry is taken.        *)
(***************************************************************************)
SpecChangeLive == SpecChange /\ WF_vars(DisplayLoaded)

\* C30: once the guard is taken it is released again, also when display loads
\* end in their error state; and a call for another country made while the
\* guard is free is accepted.
C30_GuardReleased ==
    /\ isChangingCountry ~> ~isChangingCountry
    /\ [][(~isChangingCountry /\ CallMade
             /\ ChangeTarget(changeLog'.country) # windowCurrentCountry) =>
              (isChangingCountry' /\ windowCurrentCountry' = ChangeTarget(changeLog'.country))]_vars

\* A change whose loads all ended in the error state has completed, and a later
\* call for another country is in flight.
C30_Witness ==
    /\ isChangingCountry
    /\ changeLog.calls = 2
    /\ changeCall.target = "França"
    /\ \A v \in Visualizations : shown[v] = [country |-> "Espanha", view |-> "error"]

====
